---- MODULE Spec2Model ----
(***************************************************************************)
(* supertoml: the Resolver (src/src/resolver.rs), its plugin pipeline and  *)
(* the built-in plugins (src/src/plugins), modelled as a state machine.    *)
(* The Rust call stack of resolve_table_recursive is the sequence frames;  *)
(* one action runs the code from one call/return boundary to the next.     *)
(***************************************************************************)
EXTENDS Integers, Sequences, FiniteSets, TLC

VARIABLES
    files,        \* the file system seen by load_toml_file: path -> content
    environ,      \* the process environment seen by std::env::var
    other,        \* what an earlier Resolver of the same caller returned
    plugins,      \* Resolver.plugins, the pipeline (plugin names in order)
    values,       \* Resolver.values (ResolvedValues)
    call_stack,   \* Resolver.call_stack
    toml_file,    \* Resolver.toml_file (Option)
    file_path,    \* Resolver.file_path (Option)
    meta_values,  \* Resolver.meta_values
    frames,       \* active resolve_table_recursive calls, outermost first
    pending,      \* the resolve_table_recursive call being made, or NoCall
    ret,          \* the Result just returned by resolve_table_recursive
    phase,        \* "idle": no resolve_table call is running; "running"
    result,       \* what the last resolve_table call returned
    calls,        \* number of resolve_table calls made on this Resolver
    cli_args,     \* the Args of the command-line program, NoArgs for a library caller
    stdout,       \* what was printed to standard output, one text per println!
    stderr,       \* what was printed to standard error, one text per eprintln!
    exit_status   \* the exit status of the command-line program, once it has exited

vars == <<files, environ, other, plugins, values, call_stack, toml_file,
          file_path, meta_values, frames, pending, ret, phase, result, calls,
          cli_args, stdout, stderr, exit_status>>

-----------------------------------------------------------------------------
(* Bounds of the model *)

\* resolve_table / resolve_table_with_meta calls made on one Resolver
MaxCalls == 2

-----------------------------------------------------------------------------
(* toml::Value: a record tagged with its kind *)

EmptyMap == <<>>

StrV(s) == [kind |-> "String", s |-> s]

IntV(n) == [kind |-> "Integer", n |-> n]

ArrV(a) == [kind |-> "Array", arr |-> a]

TblV(t) == [kind |-> "Table", tbl |-> t]

BoolV(b) == [kind |-> "Boolean", b |-> b]

\* Option::None for an Option<toml::Value>
NoneV == [kind |-> "None"]

as_table(v) == IF v.kind = "Table" THEN v ELSE NoneV

as_array(v) == IF v.kind = "Array" THEN v ELSE NoneV

as_str(v) == IF v.kind = "String" THEN v ELSE NoneV

\* one-entry and two-entry maps
Map1(k, v) == [x \in {k} |-> v]

Map2(k1, v1, k2, v2) == [x \in {k1, k2} |-> IF x = k1 THEN v1 ELSE v2]

\* HashMap::insert of every entry of upd into base: the later writer wins
MergeInto(base, upd) ==
    [k \in (DOMAIN base) \cup (DOMAIN upd) |->
        IF k \in DOMAIN upd THEN upd[k] ELSE base[k]]

Insert(m, k, v) == MergeInto(m, Map1(k, v))

-----------------------------------------------------------------------------
(* SuperTomlError and its Display *)

Err(kind, plugin_name, error) ==
    [kind |-> kind, plugin_name |-> plugin_name, error |-> error]

NoErr == Err("none", "", "")

FileRead(e) == Err("FileRead", "", e)

TomlParse(e) == Err("TomlParse", "", e)

TableNotFound(name) == Err("TableNotFound", "", name)

InvalidTableType(name) == Err("InvalidTableType", "", name)

CycleDetected(table) == Err("CycleDetected", "", table)

PluginDeserialization(plugin_name, error) ==
    Err("PluginDeserialization", plugin_name, error)

PluginError(plugin_name, error) == Err("PluginError", plugin_name, error)

Display(e) ==
    CASE e.kind = "FileRead" -> "Failed to read file: " \o e.error
      [] e.kind = "TomlParse" -> "Failed to parse TOML: " \o e.error
      [] e.kind = "TableNotFound" -> "Table '" \o e.error \o "' not found"
      [] e.kind = "InvalidTableType" -> "Item '" \o e.error \o "' is not a table"
      [] e.kind = "CycleDetected" ->
            "Cycle detected when processing table '" \o e.error \o "'"
      [] e.kind = "PluginDeserialization" ->
            "Plugin '" \o e.plugin_name \o "' failed to deserialize data: " \o e.error
      [] e.kind = "PluginError" ->
            "Plugin '" \o e.plugin_name \o "' error: " \o e.error
      [] OTHER -> ""

\* Result<(), SuperTomlError>
NoRet == [status |-> "none", err |-> NoErr]

OkRet == [status |-> "ok", err |-> NoErr]

ErrRet(e) == [status |-> "err", err |-> e]

\* Result<HashMap<String, toml::Value>, SuperTomlError> of resolve_table
NoResult == [status |-> "none", map |-> EmptyMap, err |-> NoErr]

OkResult(m) == [status |-> "ok", map |-> m, err |-> NoErr]

ErrResult(e) == [status |-> "err", map |-> EmptyMap, err |-> e]

NoCall == ""

\* struct Args of the command-line program; NoArgs when the library is used
\* by another caller
NoArgs == [file |-> "", table |-> "", output |-> ""]

\* the process has not exited / std::process::exit(code), or main returned
NotExited == [some |-> FALSE, code |-> 0]

Exit(code) == [some |-> TRUE, code |-> code]

-----------------------------------------------------------------------------
(* The files: what load_toml_file can find on disk *)

MainFile == "main.toml"

ExtFile == "ext.toml"

BadFile == "bad.toml"

MissingFile == "missing.toml"

\* std::io::Error and toml::de::Error are opaque: one message each
IoErrorMsg == "No such file or directory (os error 2)"

ParseErrorMsg == "expected an equals, found eof"

\* a file that exists: either it parses to a root table or it does not
FileOf(root) == [parses |-> TRUE, root |-> root]

Garbage == [parses |-> FALSE, root |-> NoneV]

\* the names of an array of table names
Names(ns) == ArrV([i \in 1..Len(ns) |-> StrV(ns[i])])

\* a table made of its own entries and of the plugin configuration under "_"
\* (cfg = NoneV: the table has no "_" entry)
TableOf(data, cfg) == TblV(IF cfg = NoneV THEN data ELSE Insert(data, "_", cfg))

ImportEntry(file, table) == TblV(Map2("file", StrV(file), "table", StrV(table)))

ImportEntryWithFormat(file, table, key_format) ==
    TblV(MergeInto(Map2("file", StrV(file), "table", StrV(table)),
                   Map1("key_format", StrV(key_format))))

DataA == Map2("k1", IntV(1), "k2", StrV("x"))

DataB == Map2("k1", IntV(2), "k3", StrV("y"))

DataC == Map1("k3", StrV("{{ k2 }}"))

DataE == Map2("k2", StrV("e"), "k4", IntV(4))

DataE2 == Map1("k2", StrV("f"))

\* the "_" entry of table a
ConfigsA ==
    {NoneV, IntV(5)}
    \cup {TblV(Map1("before", Names(ns))) :
            ns \in {<<"a">>, <<"b">>, <<"c">>, <<"zz">>, <<"nt">>,
                    <<"b", "c">>, <<"zz", "b">>}}
    \cup {TblV(Map1("before", ArrV(<<IntV(1), StrV("b")>>))),
          TblV(Map1("before", StrV("b")))}
    \cup {TblV(Map1("after", Names(ns))) : ns \in {<<"a">>, <<"b">>, <<"zz">>}}
    \cup {TblV(Map1("reference", TblV(Map1("table", StrV(n))))) : n \in {"a", "b"}}
    \cup {TblV(Map1("import", ArrV(<<ImportEntry(f, t)>>))) :
            <<f, t>> \in {<<MainFile, "a">>, <<ExtFile, "e">>, <<MissingFile, "e">>,
                          <<ExtFile, "zz">>, <<ExtFile, "nt">>}}
    \cup {TblV(Map1("import", ArrV(<<ImportEntry(ExtFile, "e"),
                                     ImportEntry(ExtFile, "e2")>>))),
          TblV(Map1("import", ArrV(<<ImportEntryWithFormat(ExtFile, "e",
                                                          "{{key}}_id")>>)))}
    \cup {TblV(Map2("before", Names(<<"b">>), "after", Names(<<"c">>)))}
    \cup {TblV(Map1("noop", TblV(Map1("enabled", BoolV(TRUE))))),
          TblV(Map1("noop", TblV(Map2("enabled", BoolV(TRUE), "message", StrV("m"))))),
          TblV(Map1("noop", TblV(Map2("enabled", BoolV(FALSE), "message", StrV("m"))))),
          TblV(Map1("noop", TblV(Map1("enabled", StrV("yes")))))}

\* the "_" entry of table b
ConfigsB ==
    {NoneV}
    \cup {TblV(Map1("before", Names(ns))) : ns \in {<<"a">>, <<"c">>}}
    \cup {TblV(Map1("after", Names(<<"c">>))),
          TblV(Map1("reference", TblV(Map1("table", StrV("c")))))}

\* the "_" entry of table c
ConfigsC == {NoneV, TblV(Map1("before", Names(<<"a">>)))}

\* the tables of main.toml
TableNames == {"a", "b", "c"}

\* the root of main.toml: tables a, b, c and the entry nt, which is no table
RootOf(ca, cb, cc) ==
    TblV([n \in TableNames \cup {"nt"} |->
            CASE n = "a" -> TableOf(DataA, ca)
              [] n = "b" -> TableOf(DataB, cb)
              [] n = "c" -> TableOf(DataC, cc)
              [] OTHER -> IntV(7)])

ExtRoot ==
    TblV([n \in {"e", "e2", "nt"} |->
            CASE n = "e" -> TblV(DataE)
              [] n = "e2" -> TblV(DataE2)
              [] OTHER -> IntV(7)])

\* a document whose tables read the environment in their templates
TplRootEnv ==
    TblV(Map2("a", TblV(Map1("k2", StrV("{{ env_or('X', 'd') }}"))),
              "b", TblV(Map1("k2", StrV("{{ env('X') }}")))))

\* a document with templates the engine refuses (a) and with templates at the
\* top of a table, inside an array and inside a table (b)
TplRootMisc ==
    TblV(Map2("a", TblV(Map2("k2", StrV("{{ k2"), "k3", StrV("{% k2 %}"))),
              "b", TblV([k \in {"k1", "k2", "k3", "k4"} |->
                          CASE k = "k1" -> TblV(Map1("k3", StrV("{{ k2 }}")))
                            [] k = "k2" -> StrV("x")
                            [] k = "k3" -> StrV("{{ k2 }}")
                            [] OTHER -> ArrV(<<StrV("{{ k2 }}"), IntV(1)>>)])))

\* a document with a double quote inside a string (a), and with an array and
\* a table (b)
QuoteRoot ==
    TblV(Map2("a", TblV(Map1("k2", StrV("say \"hi\""))),
              "b", TblV(Map2("k1", TblV(Map1("k3", StrV("y"))),
                             "k4", ArrV(<<StrV("x"), IntV(1)>>)))))

\* a document whose templates read the meta variable; b has a second
\* template, which reads a name that nothing defines
TplRootMeta ==
    TblV(Map2("a", TblV(Map1("k2", StrV("{{ _.args.table_name }}"))),
              "b", TblV(Map2("k2", StrV("{{ _.args.output_format }}"),
                             "k3", StrV("{{ k1 }}")))))

TemplateRoots == {TplRootEnv, TplRootMisc, QuoteRoot, TplRootMeta}

\* "_" entries of table a whose import fails: a file that does not parse after
\* an entry that was imported, an entry without its table, and a key_format
\* whose rendering fails (X is not set)
FailingImports ==
    {TblV(Map1("import", ArrV(<<ImportEntry(ExtFile, "e"), ImportEntry(BadFile, "e")>>))),
     TblV(Map1("import", ArrV(<<TblV(Map1("file", StrV(ExtFile)))>>))),
     TblV(Map1("import", ArrV(<<ImportEntryWithFormat(ExtFile, "e", "{{ env('X') }}")>>)))}

\* a document whose table a has an entry named key and imports with a
\* key_format, and whose table b has a template that reads a templated entry
\* and an After configuration that is a string
KeyRoot ==
    TblV(Map2("a", TableOf(Map1("key", StrV("v")),
                           TblV(Map1("import",
                                     ArrV(<<ImportEntryWithFormat(ExtFile, "e",
                                                                  "{{key}}_id")>>)))),
              "b", TableOf([k \in {"k1", "k2", "k3"} |->
                              CASE k = "k1" -> IntV(1)
                                [] k = "k2" -> StrV("{{ k1 }}")
                                [] OTHER -> StrV("{{ k2 }}")],
                           TblV(Map1("after", StrV("a"))))))

\* a document with one table, which names an entry that is no table
StackRoot ==
    TblV(Map2("a", TableOf(DataA, TblV(Map1("before", Names(<<"nt">>)))),
              "nt", IntV(7)))

OtherRoots == {KeyRoot, StackRoot}

FilesOf(root) ==
    [p \in {MainFile, ExtFile, BadFile} |->
        CASE p = MainFile -> FileOf(root)
          [] p = ExtFile -> FileOf(ExtRoot)
          [] OTHER -> Garbage]

\* the pipelines a Resolver is built with: the command line's, the empty one,
\* and pipelines of the other plugins
CliPipeline == <<"before", "import", "templating", "after">>

Pipelines == {CliPipeline, <<>>, <<"after">>, <<"reference">>, <<"noop">>}

\* a "_" entry is tried with the pipelines that hold every plugin it
\* configures; one that configures Before is tried with every pipeline
TriedWith(ps, cfg) ==
    IF cfg.kind # "Table" \/ cfg = TblV(Map1("before", Names(<<"b">>)))
    THEN TRUE
    ELSE \A k \in DOMAIN cfg.tbl : \E i \in 1..Len(ps) : ps[i] = k

\* the documents a pipeline is tried with: the template documents go with the
\* command line's pipeline
Roots(ps) ==
    {RootOf(c[1], c[2], c[3]) :
        c \in {x \in ConfigsA \X ConfigsB \X ConfigsC :
                  TriedWith(ps, x[1]) /\ TriedWith(ps, x[2]) /\ TriedWith(ps, x[3])}}
    \cup (IF ps = CliPipeline
          THEN TemplateRoots \cup OtherRoots
               \cup {RootOf(ca, NoneV, NoneV) : ca \in FailingImports}
          ELSE {})

\* the environments a document is tried with: X unset, and X set for the
\* document that reads it
Environs(root) ==
    IF root = TplRootEnv THEN {EmptyMap, Map1("X", "v")} ELSE {EmptyMap}

\* no earlier Resolver has returned anything
NoOther == [path |-> "", table_name |-> "", result |-> NoResult]

\* load_toml_file: Ok(value) or Err(FileRead | TomlParse)
load_toml_file(path) ==
    IF path \notin DOMAIN files
    THEN [ok |-> FALSE, value |-> NoneV, err |-> FileRead(IoErrorMsg)]
    ELSE IF ~files[path].parses
    THEN [ok |-> FALSE, value |-> NoneV, err |-> TomlParse(ParseErrorMsg)]
    ELSE [ok |-> TRUE, value |-> files[path].root, err |-> NoErr]

-----------------------------------------------------------------------------
(* The template engine (minijinja), as far as the plugins use it: a template  *)
(* string parses into pieces: literal text, the value of a variable, the      *)
(* value at a path of attributes, or a call of a function.                    *)

Lit(a) == [t |-> "lit", a |-> a]

Var(a) == [t |-> "var", a |-> a]

\* a variable followed by attributes, as in _.args.table_name
Attr(path) == [t |-> "attr", a |-> path]

\* a call of a function, its arguments string literals
Call(f, args) == [t |-> "call", a |-> f, args |-> args]

\* the one environment variable templates ask for
EnvVar == "X"

\* the engine's syntax errors start alike and go on with what it met
TemplateSyntaxMsg == "syntax error"

\* the strings of the model that hold "{{" or "{%", and what they parse to
\* (ok = FALSE: template_from_str fails with msg)
TemplateTable ==
    [s \in {"{{ k1 }}", "{{ k2 }}", "{{key}}_id", "{{ env_or('X', 'd') }}", "{{ env('X') }}",
            "{{ _.args.table_name }}", "{{ _.args.output_format }}",
            "{{ k2", "{% k2 %}"} |->
        CASE s = "{{ k1 }}" -> [ok |-> TRUE, pieces |-> <<Var("k1")>>, msg |-> ""]
          [] s = "{{ k2 }}" -> [ok |-> TRUE, pieces |-> <<Var("k2")>>, msg |-> ""]
          [] s = "{{ _.args.table_name }}" ->
                [ok |-> TRUE, pieces |-> <<Attr(<<"_", "args", "table_name">>)>>,
                 msg |-> ""]
          [] s = "{{ _.args.output_format }}" ->
                [ok |-> TRUE, pieces |-> <<Attr(<<"_", "args", "output_format">>)>>,
                 msg |-> ""]
          [] s = "{{key}}_id" ->
                [ok |-> TRUE, pieces |-> <<Var("key"), Lit("_id")>>, msg |-> ""]
          [] s = "{{ env_or('X', 'd') }}" ->
                [ok |-> TRUE, pieces |-> <<Call("env_or", <<EnvVar, "d">>)>>, msg |-> ""]
          [] s = "{{ env('X') }}" ->
                [ok |-> TRUE, pieces |-> <<Call("env", <<EnvVar>>)>>, msg |-> ""]
          [] s = "{{ k2" ->
                [ok |-> FALSE, pieces |-> <<>>,
                 msg |-> TemplateSyntaxMsg
                         \o ": unexpected end of input, expected end of variable block"]
          [] OTHER ->
                [ok |-> FALSE, pieces |-> <<>>,
                 msg |-> TemplateSyntaxMsg \o ": unknown statement k2"]]

\* s.contains("{{") || s.contains("{%")
HasDelimiter(s) == s \in DOMAIN TemplateTable

\* how the engine prints a value of the context
IntText(n) ==
    CASE n = 1 -> "1" [] n = 2 -> "2" [] n = 4 -> "4" [] n = 5 -> "5"
      [] n = 7 -> "7" [] OTHER -> "0"

JinjaText(v) ==
    CASE v.kind = "String" -> v.s
      [] v.kind = "Integer" -> IntText(v.n)
      [] OTHER -> ""

\* toml_value_to_jinja: the value the engine holds, with the text it prints
JinjaValue(v) == [text |-> JinjaText(v), value |-> v]

\* the engine's undefined value
JinjaUndefined == [text |-> "", value |-> NoneV]

\* the attribute of a value: undefined unless the value is a map that has it
GetAttr(jv, name) ==
    IF jv.value.kind = "Table" /\ name \in DOMAIN jv.value.tbl
    THEN JinjaValue(jv.value.tbl[name])
    ELSE JinjaUndefined

RECURSIVE GetPath(_, _)
\* attribute after attribute: the attribute of an undefined value is an
\* error (the engine's default undefined behaviour), printing one is not
GetPath(jv, path) ==
    IF path = <<>> THEN [ok |-> TRUE, text |-> jv.text, msg |-> ""]
    ELSE IF jv = JinjaUndefined THEN [ok |-> FALSE, text |-> "", msg |-> "undefined value"]
    ELSE GetPath(GetAttr(jv, Head(path)), Tail(path))

\* Environment::new(): no function is registered
EnvironmentNew == {}

\* create_template_environment: env and env_or are registered
create_template_environment == {"env", "env_or"}

\* the closures create_template_environment registers, over std::env::var
CallFunction(f, args) ==
    IF args[1] \in DOMAIN environ
    THEN [ok |-> TRUE, text |-> environ[args[1]], msg |-> ""]
    ELSE IF f = "env_or"
    THEN [ok |-> TRUE, text |-> args[2], msg |-> ""]
    ELSE [ok |-> FALSE, text |-> "",
          msg |-> "undefined value: Environment variable '" \o args[1] \o "' not found"]

\* Template::render against a context, in an environment with the given
\* functions: an undefined variable prints as the empty string, a call of a
\* function the environment does not have is an error
RECURSIVE RenderPieces(_, _, _)
RenderPieces(pieces, ctx, functions) ==
    IF pieces = <<>> THEN [ok |-> TRUE, text |-> "", msg |-> ""]
    ELSE LET p == Head(pieces)
             head == CASE p.t = "lit" -> [ok |-> TRUE, text |-> p.a, msg |-> ""]
                       [] p.t = "var" ->
                            [ok |-> TRUE,
                             text |-> IF p.a \in DOMAIN ctx THEN ctx[p.a].text ELSE "",
                             msg |-> ""]
                       [] p.t = "attr" ->
                            GetPath(IF Head(p.a) \in DOMAIN ctx THEN ctx[Head(p.a)]
                                    ELSE JinjaUndefined,
                                    Tail(p.a))
                       [] OTHER ->
                            IF p.a \in functions THEN CallFunction(p.a, p.args)
                            ELSE [ok |-> FALSE, text |-> "",
                                  msg |-> "unknown function: " \o p.a \o " is unknown"]
             rest == RenderPieces(Tail(pieces), ctx, functions)
         IN IF ~head.ok THEN head
            ELSE IF ~rest.ok THEN rest
            ELSE [ok |-> TRUE, text |-> head.text \o rest.text, msg |-> ""]

\* toml_value_to_jinja over a whole context
JinjaContext(context) == [k \in DOMAIN context |-> JinjaValue(context[k])]

-----------------------------------------------------------------------------
(* Texts: a printed or formatted String is the sequence of its pieces, a
   double quote or a backslash always being a piece of its own *)

Quote == "\""

Backslash == "\\"

\* the strings of the documents that hold a double quote, in pieces
QuotedStrings ==
    Map1("say \"hi\"", <<"say ", Quote, "hi", Quote>>)

Pieces(s) == IF s \in DOMAIN QuotedStrings THEN QuotedStrings[s] ELSE <<s>>

RECURSIVE Flatten(_)
\* the concatenation of a sequence of texts
Flatten(texts) ==
    IF texts = <<>> THEN <<>> ELSE Head(texts) \o Flatten(Tail(texts))

RECURSIVE Join(_, _)
\* Vec<String>::join(sep)
Join(texts, sep) ==
    IF texts = <<>> THEN <<>>
    ELSE IF Len(texts) = 1 THEN texts[1]
    ELSE texts[1] \o sep \o Join(Tail(texts), sep)

-----------------------------------------------------------------------------
(* resolver.rs *)

\* Resolver::new
ResolverNew(ps) ==
    /\ plugins = ps
    /\ values = EmptyMap
    /\ call_stack = <<>>
    /\ toml_file = NoneV
    /\ file_path = [some |-> FALSE, s |-> ""]
    /\ meta_values = EmptyMap

Init ==
    /\ \E ps \in Pipelines : \E root \in Roots(ps) : \E env \in Environs(root) :
          /\ files = FilesOf(root)
          /\ environ = env
          /\ ResolverNew(ps)
    /\ other = NoOther
    /\ frames = <<>>
    /\ pending = NoCall
    /\ ret = NoRet
    /\ phase = "idle"
    /\ result = NoResult
    /\ calls = 0
    /\ cli_args = NoArgs
    /\ stdout = <<>>
    /\ stderr = <<>>
    /\ exit_status = NotExited

\* a caller that has the outcome of a first call on one Resolver builds a
\* second one with the same pipeline (Resolver::new) and keeps the outcome
NewResolver ==
    /\ phase = "idle"
    /\ cli_args = NoArgs
    /\ calls = 1
    /\ other = NoOther
    /\ other' = [path |-> file_path.s,
                 table_name |-> IF "_" \in DOMAIN meta_values
                                THEN meta_values["_"].tbl["args"].tbl["table_name"].s
                                ELSE "",
                 result |-> result]
    /\ values' = EmptyMap
    /\ call_stack' = <<>>
    /\ toml_file' = NoneV
    /\ file_path' = [some |-> FALSE, s |-> ""]
    /\ meta_values' = EmptyMap
    /\ result' = NoResult
    /\ calls' = 0
    /\ UNCHANGED <<files, environ, plugins, frames, pending, ret, phase,
                   cli_args, stdout, stderr, exit_status>>

\* (mutant) an entry that is no table is reported like a missing one
get_table_from_loaded_file_NoShape(table_name) ==
    IF toml_file = NoneV
    THEN [ok |-> FALSE, table |-> NoneV, err |-> TableNotFound("No TOML file loaded")]
    ELSE IF as_table(toml_file) = NoneV
    THEN [ok |-> FALSE, table |-> NoneV, err |-> InvalidTableType("root")]
    ELSE IF table_name \notin DOMAIN toml_file.tbl
            \/ as_table(toml_file.tbl[table_name]) = NoneV
    THEN [ok |-> FALSE, table |-> NoneV, err |-> TableNotFound(table_name)]
    ELSE [ok |-> TRUE, table |-> toml_file.tbl[table_name], err |-> NoErr]

\* get_table_from_loaded_file
get_table_from_loaded_file(table_name) ==
    IF toml_file = NoneV
    THEN [ok |-> FALSE, table |-> NoneV, err |-> TableNotFound("No TOML file loaded")]
    ELSE IF as_table(toml_file) = NoneV
    THEN [ok |-> FALSE, table |-> NoneV, err |-> InvalidTableType("root")]
    ELSE IF table_name \notin DOMAIN toml_file.tbl
    THEN [ok |-> FALSE, table |-> NoneV, err |-> TableNotFound(table_name)]
    ELSE IF as_table(toml_file.tbl[table_name]) = NoneV
    THEN [ok |-> FALSE, table |-> NoneV, err |-> InvalidTableType(table_name)]
    ELSE [ok |-> TRUE, table |-> toml_file.tbl[table_name], err |-> NoErr]

\* (mutant) the cycle check looks at the innermost name only
Contains_TopOnly(stack, name) == stack # <<>> /\ stack[Len(stack)] = name

\* (mutant) the cycle check looks at the requested table only
Contains_RootOnly(stack, name) == stack # <<>> /\ stack[1] = name

\* call_stack.contains(name)
Contains(stack, name) == \E i \in 1..Len(stack) : stack[i] = name

\* the entries of a table other than "_" (resolve_table_recursive, the loop)
NonReserved(table) == [k \in (DOMAIN table.tbl) \ {"_"} |-> table.tbl[k]]

\* table.get("_").and_then(|v| v.as_table())
PluginsTable(table) ==
    IF "_" \in DOMAIN table.tbl THEN as_table(table.tbl["_"]) ELSE NoneV

\* process_plugins: the config handed to a plugin
ConfigFor(plugins_table, plugin_name) ==
    IF plugins_table # NoneV /\ plugin_name \in DOMAIN plugins_table.tbl
    THEN plugins_table.tbl[plugin_name]
    ELSE TblV(EmptyMap)

\* (mutant) process_plugins wraps every error
MapErr_Always(plugin_name, e) == PluginError(plugin_name, Display(e))

\* (mutant) a PluginError that passes through a frame takes the name of that
\* frame's plugin
MapErr_Renames(plugin_name, e) ==
    IF e.kind = "PluginDeserialization" THEN e
    ELSE IF e.kind = "PluginError" THEN PluginError(plugin_name, e.error)
    ELSE PluginError(plugin_name, Display(e))

\* process_plugins: the map_err applied to what a plugin's process returned
MapErr(plugin_name, e) ==
    IF e.kind \in {"PluginError", "PluginDeserialization"}
    THEN e
    ELSE PluginError(plugin_name, Display(e))

\* the args table both resolve entry points put under meta_values["_"]
MetaArgs(args) == TblV(Map1("args", TblV(args)))

Top == frames[Len(frames)]

Pop(seq) == SubSeq(seq, 1, Len(seq) - 1)

SetTop(f) == [frames EXCEPT ![Len(frames)] = f]

\* what the caller asks for: a second Resolver is given the request the first
\* one was given (when the first one could not load the file, the table name
\* made no difference)
Asked(path, table_name) ==
    other # NoOther
        => /\ path = other.path
           /\ other.table_name # "" => table_name = other.table_name

\* the body shared by resolve_table and resolve_table_with_meta
ResolveStart(path, table_name, args) ==
    /\ phase = "idle"
    /\ calls < MaxCalls
    /\ calls' = calls + 1
    /\ file_path' = [some |-> TRUE, s |-> path]
    /\ LET loaded == load_toml_file(path)
       IN IF ~loaded.ok
          THEN /\ result' = ErrResult(loaded.err)
               /\ UNCHANGED <<toml_file, meta_values, pending, phase>>
          ELSE /\ toml_file' = loaded.value
               /\ meta_values' = Insert(meta_values, "_", MetaArgs(args))
               /\ pending' = table_name
               /\ phase' = "running"
               /\ result' = NoResult
    /\ UNCHANGED <<files, environ, other, plugins, values, call_stack, frames, ret>>

\* Resolver::resolve_table up to its call of resolve_table_recursive
ResolveTable(path, table_name) ==
    /\ phase = "idle"
    /\ cli_args = NoArgs
    /\ Asked(path, table_name)
    /\ UNCHANGED <<cli_args, stdout, stderr, exit_status>>
    /\ ResolveStart(path, table_name,
                    Map2("file_path", StrV(path), "table_name", StrV(table_name)))

\* Resolver::resolve_table_with_meta up to its call of resolve_table_recursive
ResolveTableWithMeta(path, table_name, output_format) ==
    /\ phase = "idle"
    /\ cli_args = NoArgs
    /\ Asked(path, table_name)
    /\ UNCHANGED <<cli_args, stdout, stderr, exit_status>>
    /\ ResolveStart(path, table_name,
                    MergeInto(Map2("file_path", StrV(path), "table_name", StrV(table_name)),
                              Map1("output_format", StrV(output_format))))

\* (mutant) the name is pushed before the cycle check
CycleExit_Pushed ==
    /\ ret' = ErrRet(CycleDetected(pending))
    /\ call_stack' = Append(call_stack, pending)
    /\ UNCHANGED frames

\* resolve_table_recursive: the early return of the cycle check
CycleExit ==
    /\ ret' = ErrRet(CycleDetected(pending))
    /\ UNCHANGED <<call_stack, frames>>

\* resolve_table_recursive from its entry to the call of process_plugins:
\* the cycle check, the push, the extraction and the copy into table_values
Enter ==
    /\ pending # NoCall
    /\ pending' = NoCall
    /\ IF Contains(call_stack, pending)
       THEN CycleExit
       ELSE /\ call_stack' = Append(call_stack, pending)
            /\ LET got == get_table_from_loaded_file(pending)
               IN IF ~got.ok
                  THEN /\ ret' = ErrRet(got.err)
                       /\ UNCHANGED frames
                  ELSE /\ frames' = Append(frames,
                              [table_name |-> pending,
                               table_values |-> NonReserved(got.table),
                               plugins_table |-> PluginsTable(got.table),
                               pi |-> 1,
                               ci |-> 1,
                               entry_stack |-> call_stack])
                       /\ UNCHANGED ret
    /\ UNCHANGED <<files, environ, other, plugins, values, toml_file, file_path, meta_values,
                   phase, result, calls, cli_args, stdout, stderr, exit_status>>

\* a plugin of the top frame can take its next step
AtPlugin(name) ==
    /\ frames # <<>>
    /\ pending = NoCall
    /\ ret = NoRet
    /\ Top.pi <= Len(plugins)
    /\ plugins[Top.pi] = name

\* (mutant) process_plugins leaves out the plugin after one that returned Ok
PluginOk_SkipsNext(new_values, new_table_values) ==
    /\ values' = new_values
    /\ frames' = SetTop([Top EXCEPT !.pi = @ + 2, !.ci = 1,
                                    !.table_values = new_table_values])
    /\ UNCHANGED <<call_stack, pending, ret>>

\* the plugin of the top frame returned Ok: process_plugins goes to the next one
PluginOk(new_values, new_table_values) ==
    /\ values' = new_values
    /\ frames' = SetTop([Top EXCEPT !.pi = @ + 1, !.ci = 1,
                                    !.table_values = new_table_values])
    /\ UNCHANGED <<call_stack, pending, ret>>

\* the plugin of the top frame returned Err(e): process_plugins maps the error
\* and resolve_table_recursive returns it through the ? operator
PluginErr(e) ==
    /\ ret' = ErrRet(MapErr(plugins[Top.pi], e))
    /\ frames' = Pop(frames)
    /\ UNCHANGED <<values, call_stack, pending>>

\* the plugin of the top frame calls resolve_table_recursive(table_name) for
\* the element at position ci of its configuration
PluginCalls(table_name, at) ==
    /\ pending' = table_name
    /\ frames' = SetTop([Top EXCEPT !.ci = at])
    /\ UNCHANGED <<values, call_stack, ret>>

\* what no step of a resolution changes
Fixed == <<files, environ, other, plugins, toml_file, file_path, meta_values, phase, result, calls,
           cli_args, stderr, exit_status>>

-----------------------------------------------------------------------------
(* plugins/before.rs, plugins/after.rs *)

\* the table names of a Before/After config: the elements of the array, or
\* none when the config is no array
TableNamesOf(config) == IF as_array(config) # NoneV THEN config.arr ELSE <<>>

\* (mutant) the last string element is taken first
NextName_Last(names, from) ==
    LET S == {j \in from..Len(names) : as_str(names[j]) # NoneV}
    IN IF S = {} THEN 0 ELSE CHOOSE j \in S : \A k \in S : j >= k

\* the position of the first string element at or after position from, or 0
NextName(names, from) ==
    LET S == {j \in from..Len(names) : as_str(names[j]) # NoneV}
    IN IF S = {} THEN 0 ELSE CHOOSE j \in S : \A k \in S : j <= k

\* (mutant) Before keeps what resolver.values already has for a key
BeforeProcess_DepsWin ==
    /\ AtPlugin("before")
    /\ LET names == TableNamesOf(ConfigFor(Top.plugins_table, "before"))
           next == NextName(names, Top.ci)
       IN IF next # 0
          THEN PluginCalls(names[next].s, next)
          ELSE PluginOk(MergeInto(Top.table_values, values), Top.table_values)
    /\ UNCHANGED <<Fixed, stdout>>

\* (mutant) Before refuses a configuration that is not an array of strings
BeforeProcess_Strict ==
    /\ AtPlugin("before")
    /\ LET config == ConfigFor(Top.plugins_table, "before")
           names == TableNamesOf(config)
           next == NextName(names, Top.ci)
       IN IF config # TblV(EmptyMap)
             /\ (as_array(config) = NoneV
                 \/ \E j \in 1..Len(names) : as_str(names[j]) = NoneV)
          THEN PluginErr(PluginDeserialization("before", "invalid type"))
          ELSE IF next # 0
          THEN PluginCalls(names[next].s, next)
          ELSE PluginOk(MergeInto(values, Top.table_values), Top.table_values)
    /\ UNCHANGED <<Fixed, stdout>>

\* BeforePlugin::process, from one call of resolve_table_recursive to the next
BeforeProcess ==
    /\ AtPlugin("before")
    /\ LET names == TableNamesOf(ConfigFor(Top.plugins_table, "before"))
           next == NextName(names, Top.ci)
       IN IF next # 0
          THEN PluginCalls(names[next].s, next)
          ELSE PluginOk(MergeInto(values, Top.table_values), Top.table_values)
    /\ UNCHANGED <<Fixed, stdout>>

\* (mutant) After writes table_values into resolver.values as Before does
AfterProcess_Merges ==
    /\ AtPlugin("after")
    /\ LET names == TableNamesOf(ConfigFor(Top.plugins_table, "after"))
           next == NextName(names, Top.ci)
       IN IF next # 0
          THEN PluginCalls(names[next].s, next)
          ELSE PluginOk(MergeInto(values, Top.table_values), Top.table_values)
    /\ UNCHANGED <<Fixed, stdout>>

\* AfterPlugin::process, from one call of resolve_table_recursive to the next
AfterProcess ==
    /\ AtPlugin("after")
    /\ LET names == TableNamesOf(ConfigFor(Top.plugins_table, "after"))
           next == NextName(names, Top.ci)
       IN IF next # 0
          THEN PluginCalls(names[next].s, next)
          ELSE PluginOk(values, Top.table_values)
    /\ UNCHANGED <<Fixed, stdout>>

-----------------------------------------------------------------------------
(* plugins/reference.rs *)

\* serde's message for a config of the wrong shape is opaque
DeserializeMsg == "invalid type"

\* extract_config!(config, ReferenceConfig): table is an Option<String>
ReferenceConfigOk(config) ==
    "table" \in DOMAIN config.tbl => config.tbl["table"].kind = "String"

\* (mutant) the merge of the frame's own entries keeps the values that are
\* resolved already
ReferenceProcess_ResolvedWin ==
    /\ AtPlugin("reference")
    /\ LET config == ConfigFor(Top.plugins_table, "reference")
           skip == as_table(config) = NoneV \/ config.tbl = EmptyMap
       IN IF ~skip /\ ~ReferenceConfigOk(config)
          THEN PluginErr(PluginDeserialization("reference", DeserializeMsg))
          ELSE IF ~skip /\ "table" \in DOMAIN config.tbl /\ Top.ci = 1
          THEN PluginCalls(config.tbl["table"].s, 1)
          ELSE PluginOk(MergeInto(Top.table_values, values), Top.table_values)
    /\ UNCHANGED <<Fixed, stdout>>

\* ReferencePlugin::process, up to its call of resolve_table_recursive and
\* from there to its end
ReferenceProcess ==
    /\ AtPlugin("reference")
    /\ LET config == ConfigFor(Top.plugins_table, "reference")
           skip == as_table(config) = NoneV \/ config.tbl = EmptyMap
       IN IF ~skip /\ ~ReferenceConfigOk(config)
          THEN PluginErr(PluginDeserialization("reference", DeserializeMsg))
          ELSE IF ~skip /\ "table" \in DOMAIN config.tbl /\ Top.ci = 1
          THEN PluginCalls(config.tbl["table"].s, 1)
          ELSE PluginOk(MergeInto(values, Top.table_values), Top.table_values)
    /\ UNCHANGED <<Fixed, stdout>>

-----------------------------------------------------------------------------
(* plugins/noop.rs *)

MissingFieldMsg == "missing field"

\* config.try_into::<NoopConfig>(): enabled is required and a boolean,
\* message is optional and a string
NoopConfigError(config) ==
    IF config.kind # "Table" THEN DeserializeMsg
    ELSE IF "enabled" \notin DOMAIN config.tbl THEN MissingFieldMsg
    ELSE IF config.tbl["enabled"].kind # "Boolean" THEN DeserializeMsg
    ELSE IF "message" \in DOMAIN config.tbl /\ config.tbl["message"].kind # "String"
    THEN DeserializeMsg
    ELSE ""

\* the line NoopPlugin prints when it is enabled
NoopLine(config) ==
    IF "message" \in DOMAIN config.tbl
    THEN <<"NoopPlugin: ">> \o Pieces(config.tbl["message"].s)
    ELSE <<"NoopPlugin: Running with ", IntText(Cardinality(DOMAIN values)), " values">>

\* NoopPlugin::process
NoopProcess ==
    /\ AtPlugin("noop")
    /\ LET config == ConfigFor(Top.plugins_table, "noop")
       IN IF NoopConfigError(config) # ""
          THEN /\ PluginErr(PluginDeserialization("noop", NoopConfigError(config)))
               /\ UNCHANGED stdout
          ELSE /\ PluginOk(values, Top.table_values)
               /\ stdout' = IF config.tbl["enabled"].b
                             THEN Append(stdout, NoopLine(config)) ELSE stdout
    /\ UNCHANGED Fixed

-----------------------------------------------------------------------------
(* plugins/import.rs *)

\* template_from_str: a string without delimiters is one literal piece
ParseTemplate(s) ==
    IF s \in DOMAIN TemplateTable THEN TemplateTable[s]
    ELSE [ok |-> TRUE, pieces |-> <<Lit(s)>>, msg |-> ""]

\* template_error
template_error(plugin_name, operation, error) ==
    PluginError(plugin_name, operation \o ": " \o error)

\* (mutant) the key_format is ignored and the raw key is kept
transform_key_with_template_Raw(key, template, context) ==
    [ok |-> TRUE, key |-> key, err |-> NoErr]

\* ImportPlugin::transform_key_with_template
transform_key_with_template(key, template, context) ==
    LET template_context == MergeInto(Map1("key", JinjaValue(StrV(key))),
                                         JinjaContext(context))
        parsed == ParseTemplate(template)
        rendered == RenderPieces(parsed.pieces, template_context,
                                create_template_environment)
    IN IF ~parsed.ok
       THEN [ok |-> FALSE, key |-> "",
             err |-> template_error("import", "Failed to parse key_format template",
                                    parsed.msg)]
       ELSE IF ~rendered.ok
       THEN [ok |-> FALSE, key |-> "",
             err |-> template_error("import", "Failed to render key_format template",
                                    rendered.msg)]
       ELSE [ok |-> TRUE, key |-> rendered.text, err |-> NoErr]

\* ImportPlugin::extract_table_from_toml
extract_table_from_toml(toml, file, table) ==
    IF as_table(toml) = NoneV
    THEN [ok |-> FALSE, table |-> NoneV,
          err |-> InvalidTableType("Root element in file '" \o file \o "' is not a table")]
    ELSE IF table \notin DOMAIN toml.tbl
    THEN [ok |-> FALSE, table |-> NoneV,
          err |-> TableNotFound("Table '" \o table \o "' not found in file '" \o file \o "'")]
    ELSE IF as_table(toml.tbl[table]) = NoneV
    THEN [ok |-> FALSE, table |-> NoneV,
          err |-> TableNotFound("Table '" \o table \o "' in file '" \o file
                                \o "' is not a table")]
    ELSE [ok |-> TRUE, table |-> toml.tbl[table], err |-> NoErr]

\* the keys of the model in the order a toml table iterates them (sorted)
KeyOrder == <<"_", "k1", "k2", "k3", "k4">>

\* (mutant) an imported pair does not replace an entry table_values has
RECURSIVE ImportPairs_KeepExisting(_, _, _, _, _)
ImportPairs_KeepExisting(table_data, i, key_format, table_values, context) ==
    IF i > Len(KeyOrder) THEN [ok |-> TRUE, table_values |-> table_values, err |-> NoErr]
    ELSE IF KeyOrder[i] \notin DOMAIN table_data
    THEN ImportPairs_KeepExisting(table_data, i + 1, key_format, table_values, context)
    ELSE LET key == KeyOrder[i]
         IN ImportPairs_KeepExisting(table_data, i + 1, key_format,
                MergeInto(Map1(key, table_data[key]), table_values), context)

\* process_single_import, the loop over the pairs of the imported table
RECURSIVE ImportPairs(_, _, _, _, _)
ImportPairs(table_data, i, key_format, table_values, context) ==
    IF i > Len(KeyOrder) THEN [ok |-> TRUE, table_values |-> table_values, err |-> NoErr]
    ELSE IF KeyOrder[i] \notin DOMAIN table_data
    THEN ImportPairs(table_data, i + 1, key_format, table_values, context)
    ELSE LET key == KeyOrder[i]
             final == IF key_format # NoneV
                      THEN transform_key_with_template(key, key_format.s, context)
                      ELSE [ok |-> TRUE, key |-> key, err |-> NoErr]
         IN IF ~final.ok
            THEN [ok |-> FALSE, table_values |-> table_values, err |-> final.err]
            ELSE ImportPairs(table_data, i + 1, key_format,
                             Insert(table_values, final.key, table_data[key]), context)

\* ImportPlugin::process_single_import
process_single_import(import_config, table_values, context) ==
    LET file == import_config.tbl["file"].s
        external_toml == load_toml_file(file)
        table_data == extract_table_from_toml(external_toml.value, file,
                                              import_config.tbl["table"].s)
        key_format == IF "key_format" \in DOMAIN import_config.tbl
                      THEN import_config.tbl["key_format"] ELSE NoneV
    IN IF ~external_toml.ok
       THEN [ok |-> FALSE, table_values |-> table_values, err |-> external_toml.err]
       ELSE IF ~table_data.ok
       THEN [ok |-> FALSE, table_values |-> table_values, err |-> table_data.err]
       ELSE ImportPairs(table_data.table.tbl, 1, key_format, table_values, context)

\* extract_config!(config, Vec<ImportConfig>)
ImportConfigOk(config) ==
    \A i \in 1..Len(config.arr) :
        LET e == config.arr[i]
        IN /\ e.kind = "Table"
           /\ "file" \in DOMAIN e.tbl /\ e.tbl["file"].kind = "String"
           /\ "table" \in DOMAIN e.tbl /\ e.tbl["table"].kind = "String"
           /\ "key_format" \in DOMAIN e.tbl => e.tbl["key_format"].kind = "String"

\* ImportPlugin::process, the loop over the import configurations
RECURSIVE ImportAll(_, _, _, _)
ImportAll(import_configs, i, table_values, context) ==
    IF i > Len(import_configs)
    THEN [ok |-> TRUE, table_values |-> table_values, err |-> NoErr]
    ELSE LET one == process_single_import(import_configs[i], table_values, context)
         IN IF ~one.ok THEN one
            ELSE ImportAll(import_configs, i + 1, one.table_values, context)

\* (mutant) an import that fails leaves in resolver.values what it had
\* imported before the failure
ImportProcess_PartialOnError ==
    /\ AtPlugin("import")
    /\ LET config == ConfigFor(Top.plugins_table, "import")
       IN IF as_array(config) = NoneV
          THEN PluginOk(MergeInto(values, Top.table_values), Top.table_values)
          ELSE IF ~ImportConfigOk(config)
          THEN PluginErr(PluginDeserialization("import", DeserializeMsg))
          ELSE LET done == ImportAll(config.arr, 1, Top.table_values, values)
               IN IF ~done.ok
                  THEN /\ ret' = ErrRet(MapErr("import", done.err))
                       /\ frames' = Pop(frames)
                       /\ values' = MergeInto(values, done.table_values)
                       /\ UNCHANGED <<call_stack, pending>>
                  ELSE PluginOk(MergeInto(values, done.table_values), done.table_values)
    /\ UNCHANGED <<Fixed, stdout>>

\* ImportPlugin::process
ImportProcess ==
    /\ AtPlugin("import")
    /\ LET config == ConfigFor(Top.plugins_table, "import")
       IN IF as_array(config) = NoneV
          THEN PluginOk(MergeInto(values, Top.table_values), Top.table_values)
          ELSE IF ~ImportConfigOk(config)
          THEN PluginErr(PluginDeserialization("import", DeserializeMsg))
          ELSE LET done == ImportAll(config.arr, 1, Top.table_values, values)
               IN IF ~done.ok
                  THEN PluginErr(done.err)
                  ELSE PluginOk(MergeInto(values, done.table_values), done.table_values)
    /\ UNCHANGED <<Fixed, stdout>>

-----------------------------------------------------------------------------
(* plugins/templating.rs *)

\* process_value_with_jinja
process_value_with_jinja(value, context) ==
    IF value.kind = "String" /\ HasDelimiter(value.s)
    THEN LET template == TemplateTable[value.s]
             rendered == RenderPieces(template.pieces, JinjaContext(context),
                                      EnvironmentNew)
         IN IF ~template.ok
            THEN [ok |-> FALSE, value |-> NoneV,
                  err |-> PluginError("templating", "Template error: " \o template.msg)]
            ELSE IF ~rendered.ok
            THEN [ok |-> FALSE, value |-> NoneV,
                  err |-> PluginError("templating", "Render error: " \o rendered.msg)]
            ELSE [ok |-> TRUE, value |-> StrV(rendered.text), err |-> NoErr]
    ELSE [ok |-> TRUE, value |-> value, err |-> NoErr]

\* (mutant) the entries are written one by one as they are rendered, so a
\* failure leaves in resolver.values the entries rendered before it
TemplatingProcess_WritesAsItGoes ==
    /\ AtPlugin("templating")
    /\ LET done == [k \in DOMAIN Top.table_values |->
                       process_value_with_jinja(Top.table_values[k], values)]
           failed == {k \in DOMAIN done : ~done[k].ok}
           rendered == [k \in DOMAIN done \ failed |-> done[k].value]
           processed_values == [k \in DOMAIN done |-> done[k].value]
       IN IF failed # {}
          THEN \E k \in failed :
                  /\ ret' = ErrRet(MapErr("templating", done[k].err))
                  /\ frames' = Pop(frames)
                  /\ values' = MergeInto(values, rendered)
                  /\ UNCHANGED <<call_stack, pending>>
          ELSE PluginOk(MergeInto(values, processed_values), processed_values)
    /\ UNCHANGED <<Fixed, stdout>>

\* (mutant) an entry is rendered among the values the other entries of the
\* table have been rendered to
TemplatingProcess_SeesRendered ==
    /\ AtPlugin("templating")
    /\ LET first == [k \in DOMAIN Top.table_values |->
                        process_value_with_jinja(Top.table_values[k], values)]
           seen == MergeInto(values, [k \in {j \in DOMAIN first : first[j].ok} |->
                                         first[k].value])
           done == [k \in DOMAIN Top.table_values |->
                       process_value_with_jinja(Top.table_values[k], seen)]
           failed == {k \in DOMAIN done : ~done[k].ok}
           processed_values == [k \in DOMAIN done |-> done[k].value]
       IN IF failed # {}
          THEN \E k \in failed : PluginErr(done[k].err)
          ELSE PluginOk(MergeInto(values, processed_values), processed_values)
    /\ UNCHANGED <<Fixed, stdout>>

\* TemplatingPlugin::process; when several entries fail, the one the HashMap
\* iterates first decides the error
TemplatingProcess ==
    /\ AtPlugin("templating")
    /\ LET done == [k \in DOMAIN Top.table_values |->
                       process_value_with_jinja(Top.table_values[k], values)]
           failed == {k \in DOMAIN done : ~done[k].ok}
           processed_values == [k \in DOMAIN done |-> done[k].value]
       IN IF failed # {}
          THEN \E k \in failed : PluginErr(done[k].err)
          ELSE PluginOk(MergeInto(values, processed_values), processed_values)
    /\ UNCHANGED <<Fixed, stdout>>

-----------------------------------------------------------------------------
(* resolver.rs: returning *)

\* (mutant) the plugin drops the Result of resolve_table_recursive
Resume_Swallow ==
    /\ frames # <<>>
    /\ ret # NoRet
    /\ frames' = SetTop([Top EXCEPT !.ci = @ + 1])
    /\ ret' = NoRet
    /\ UNCHANGED <<values, call_stack, pending>>
    /\ UNCHANGED <<Fixed, stdout>>

\* (mutant) the plugin's loop does not move on to the next element
Resume_NoAdvance ==
    /\ frames # <<>>
    /\ ret # NoRet
    /\ IF ret.status = "ok"
       THEN /\ ret' = NoRet
            /\ UNCHANGED <<frames, values, call_stack, pending>>
       ELSE PluginErr(ret.err)
    /\ UNCHANGED <<Fixed, stdout>>

\* (mutant) a plugin whose call failed writes its table_values before it fails
Resume_MergesOnErr ==
    /\ frames # <<>>
    /\ ret # NoRet
    /\ IF ret.status = "ok"
       THEN /\ frames' = SetTop([Top EXCEPT !.ci = @ + 1])
            /\ ret' = NoRet
            /\ UNCHANGED <<values, call_stack, pending>>
       ELSE /\ ret' = ErrRet(MapErr(plugins[Top.pi], ret.err))
            /\ frames' = Pop(frames)
            /\ values' = MergeInto(values, Top.table_values)
            /\ UNCHANGED <<call_stack, pending>>
    /\ UNCHANGED <<Fixed, stdout>>

\* the call a plugin made of resolve_table_recursive returned: on Ok the plugin
\* goes on after the call, on Err the ? operator makes the plugin return it
Resume ==
    /\ frames # <<>>
    /\ ret # NoRet
    /\ IF ret.status = "ok"
       THEN /\ frames' = SetTop([Top EXCEPT !.ci = @ + 1])
            /\ ret' = NoRet
            /\ UNCHANGED <<values, call_stack, pending>>
       ELSE PluginErr(ret.err)
    /\ UNCHANGED <<Fixed, stdout>>

\* (mutant) resolve_table_recursive merges table_values itself before it returns
FrameReturn_Merges ==
    /\ frames # <<>>
    /\ pending = NoCall
    /\ ret = NoRet
    /\ Top.pi > Len(plugins)
    /\ call_stack' = Pop(call_stack)
    /\ frames' = Pop(frames)
    /\ ret' = OkRet
    /\ values' = MergeInto(values, Top.table_values)
    /\ UNCHANGED pending
    /\ UNCHANGED <<Fixed, stdout>>

\* (mutant) the table_values of a frame that returns go into its caller's
FrameReturn_LeaksLocals ==
    /\ frames # <<>>
    /\ pending = NoCall
    /\ ret = NoRet
    /\ Top.pi > Len(plugins)
    /\ call_stack' = Pop(call_stack)
    /\ frames' = IF Len(frames) = 1 THEN <<>>
                  ELSE [Pop(frames) EXCEPT ![Len(frames) - 1].table_values =
                                              MergeInto(@, Top.table_values)]
    /\ ret' = OkRet
    /\ UNCHANGED <<values, pending>>
    /\ UNCHANGED <<Fixed, stdout>>

\* resolve_table_recursive after process_plugins returned Ok: the pop, Ok(())
FrameReturn ==
    /\ frames # <<>>
    /\ pending = NoCall
    /\ ret = NoRet
    /\ Top.pi > Len(plugins)
    /\ call_stack' = Pop(call_stack)
    /\ frames' = Pop(frames)
    /\ ret' = OkRet
    /\ UNCHANGED <<values, pending>>
    /\ UNCHANGED <<Fixed, stdout>>

\* (mutant) the values are taken first and the emptied map is returned
Finish_TakeThenRead ==
    /\ phase = "running"
    /\ frames = <<>>
    /\ ret # NoRet
    /\ IF ret.status = "ok"
       THEN /\ result' = OkResult(EmptyMap)
            /\ values' = EmptyMap
       ELSE /\ result' = ErrResult(ret.err)
            /\ UNCHANGED values
    /\ ret' = NoRet
    /\ phase' = "idle"
    /\ UNCHANGED <<files, environ, other, plugins, call_stack, toml_file, file_path, meta_values,
                   frames, pending, calls, cli_args, stdout, stderr, exit_status>>

\* (mutant) the Result of resolve_table_recursive is dropped, without the ?
Finish_IgnoresErr ==
    /\ phase = "running"
    /\ frames = <<>>
    /\ ret # NoRet
    /\ result' = OkResult(values)
    /\ values' = EmptyMap
    /\ ret' = NoRet
    /\ phase' = "idle"
    /\ UNCHANGED <<files, environ, other, plugins, call_stack, toml_file, file_path, meta_values,
                   frames, pending, calls, cli_args, stdout, stderr, exit_status>>

\* resolve_table / resolve_table_with_meta after resolve_table_recursive
\* returned: the ? operator, or Ok(std::mem::take(&mut self.values))
Finish ==
    /\ phase = "running"
    /\ frames = <<>>
    /\ ret # NoRet
    /\ IF ret.status = "ok"
       THEN /\ result' = OkResult(values)
            /\ values' = EmptyMap
       ELSE /\ result' = ErrResult(ret.err)
            /\ UNCHANGED values
    /\ ret' = NoRet
    /\ phase' = "idle"
    /\ UNCHANGED <<files, environ, other, plugins, call_stack, toml_file, file_path, meta_values,
                   frames, pending, calls, cli_args, stdout, stderr, exit_status>>

-----------------------------------------------------------------------------
(* formatter.rs *)

\* the keys of the model in the order of String's Ord
KeysInOrder ==
    <<"_", "after", "before", "enabled", "file", "import", "k1", "k2", "k2_id", "k3",
      "k4", "k4_id", "key", "key_format", "message", "noop", "reference", "table",
      "v_id">>

\* sorted_keys, and the iteration order of a toml table
sorted_keys(map) == SelectSeq(KeysInOrder, LAMBDA k : k \in DOMAIN map)

\* serde_json's escaping inside a string: a backslash before every double
\* quote and every backslash
JsonEscape(text) ==
    Flatten([i \in 1..Len(text) |->
                IF text[i] \in {Quote, Backslash} THEN <<Backslash, text[i]>>
                ELSE <<text[i]>>])

RECURSIVE JsonText(_)
\* serde_json::to_string(&toml_value_to_json(value))
JsonText(value) ==
    CASE value.kind = "String" -> <<Quote>> \o JsonEscape(Pieces(value.s)) \o <<Quote>>
      [] value.kind = "Integer" -> <<IntText(value.n)>>
      [] value.kind = "Boolean" -> <<IF value.b THEN "true" ELSE "false">>
      [] value.kind = "Array" ->
            <<"[">> \o Join([i \in 1..Len(value.arr) |-> JsonText(value.arr[i])], <<",">>)
                   \o <<"]">>
      [] OTHER ->
            LET keys == sorted_keys(value.tbl)
            IN <<"{">> \o Join([i \in 1..Len(keys) |->
                                  <<Quote, keys[i], Quote, ":">>
                                      \o JsonText(value.tbl[keys[i]])], <<",">>)
                      \o <<"}">>

\* String::replace('"', "\\\"")
EscapeQuotes(text) ==
    Flatten([i \in 1..Len(text) |->
                IF text[i] = Quote THEN <<Backslash, Quote>> ELSE <<text[i]>>])

value_to_exports_string(value) ==
    CASE value.kind = "String" -> Pieces(value.s)
      [] value.kind = "Integer" -> <<IntText(value.n)>>
      [] value.kind = "Boolean" -> <<IF value.b THEN "true" ELSE "false">>
      [] OTHER -> EscapeQuotes(JsonText(value))

format_as_exports(map) ==
    LET keys == sorted_keys(map)
    IN [ok |-> TRUE, err |-> NoErr,
        text |-> Join([i \in 1..Len(keys) |->
                          <<"export ", Quote, keys[i], "=">>
                              \o value_to_exports_string(map[keys[i]]) \o <<Quote>>],
                      <<"\n">>)]

-----------------------------------------------------------------------------
(* main.rs *)

\* change_to_file_directory: canonicalize fails for a path that does not exist
change_to_file_directory(path) ==
    IF path \in DOMAIN files
    THEN [ok |-> TRUE, err |-> ""]
    ELSE [ok |-> FALSE,
          err |-> "Failed to resolve file path '" \o path \o "': " \o IoErrorMsg]

\* main from Args::parse, and run up to its call of resolve_table_recursive
\* inside resolve_table_with_meta; the Resolver of run is the one built with
\* the command line's pipeline
Main(file, table, output) ==
    /\ cli_args = NoArgs
    /\ phase = "idle"
    /\ calls = 0
    /\ other = NoOther
    /\ plugins = CliPipeline
    /\ cli_args' = [file |-> file, table |-> table, output |-> output]
    /\ LET changed == change_to_file_directory(file)
       IN IF ~changed.ok
          THEN /\ stderr' = Append(stderr, <<"Error: " \o changed.err>>)
               /\ exit_status' = Exit(1)
               /\ UNCHANGED <<files, environ, other, plugins, values, call_stack, toml_file,
                              file_path, meta_values, frames, pending, ret, phase, result,
                              calls>>
          ELSE /\ ResolveStart(file, table,
                               MergeInto(Map2("file_path", StrV(file),
                                              "table_name", StrV(table)),
                                         Map1("output_format", StrV(output))))
               /\ UNCHANGED <<stderr, exit_status>>
    /\ UNCHANGED stdout

\* (mutant) the mapping resolved so far is printed also when run failed
RunReturns_PrintsOnError ==
    /\ cli_args # NoArgs
    /\ ~exit_status.some
    /\ phase = "idle"
    /\ result # NoResult
    /\ stdout' = Append(stdout, format_as_exports(values).text)
    /\ IF result.status = "ok"
       THEN /\ exit_status' = Exit(0)
            /\ UNCHANGED stderr
       ELSE /\ stderr' = Append(stderr, <<"Error: " \o Display(result.err)>>)
            /\ exit_status' = Exit(1)
    /\ UNCHANGED <<files, environ, other, plugins, values, call_stack, toml_file, file_path,
                   meta_values, frames, pending, ret, phase, result, calls, cli_args>>

\* run after resolve_table_with_meta returned, and the rest of main
RunReturns ==
    /\ cli_args # NoArgs
    /\ ~exit_status.some
    /\ phase = "idle"
    /\ result # NoResult
    /\ LET output == IF result.status = "err"
                     THEN [ok |-> FALSE, err |-> result.err, text |-> <<>>]
                     ELSE format_as_exports(result.map)
       IN IF output.ok
          THEN /\ stdout' = Append(stdout, output.text)
               /\ exit_status' = Exit(0)
               /\ UNCHANGED stderr
          ELSE /\ stderr' = Append(stderr, <<"Error: " \o Display(output.err)>>)
               /\ exit_status' = Exit(1)
               /\ UNCHANGED stdout
    /\ UNCHANGED <<files, environ, other, plugins, values, call_stack, toml_file, file_path,
                   meta_values, frames, pending, ret, phase, result, calls, cli_args>>

-----------------------------------------------------------------------------
(* The inputs of the entry points *)

Paths == {MainFile, BadFile, MissingFile}

Requested == {"a", "b", "zz"}

Formats == {"json"}

\* the --output the command-line program is run with
OutputFormats == {"exports"}

Next ==
    \/ \E path \in Paths, table_name \in Requested : ResolveTable(path, table_name)
    \/ \E path \in Paths, table_name \in Requested, output_format \in Formats :
          ResolveTableWithMeta(path, table_name, output_format)
    \/ NewResolver
    \/ \E file \in Paths, table \in Requested, output \in OutputFormats :
          Main(file, table, output)
    \/ RunReturns
    \/ Enter
    \/ BeforeProcess
    \/ AfterProcess
    \/ ReferenceProcess
    \/ NoopProcess
    \/ ImportProcess
    \/ TemplatingProcess
    \/ Resume
    \/ FrameReturn
    \/ Finish

Spec == Init /\ [][Next]_vars

\* a resolution, once called, runs on: the code is sequential and nothing in
\* it waits; whether the caller calls resolve_table again is up to the caller
Step ==
    \/ Enter
    \/ BeforeProcess
    \/ AfterProcess
    \/ ReferenceProcess
    \/ NoopProcess
    \/ ImportProcess
    \/ TemplatingProcess
    \/ Resume
    \/ FrameReturn
    \/ Finish

FairSpec == Spec /\ WF_vars(Step)

-----------------------------------------------------------------------------
(* What the properties below speak about *)

\* the document of main.toml
Doc == files[MainFile].root

\* the table name the running (or last) resolve_table call was given
RequestedTable ==
    IF "_" \in DOMAIN meta_values
    THEN meta_values["_"].tbl["args"].tbl["table_name"].s
    ELSE ""

\* the last resolve_table call got past load_toml_file and has returned
Returned ==
    /\ phase = "idle"
    /\ result.status # "none"
    /\ result.err.kind \notin {"FileRead", "TomlParse"}

\* a resolve_table_recursive call returns on this step: Enter without a new
\* frame, or a frame that ends
FrameExit == (pending # NoCall /\ frames' = frames) \/ Len(frames') < Len(frames)

\* the call_stack as it was when the call that returns was entered
StackAtEntry == IF pending # NoCall THEN call_stack ELSE Top.entry_stack

InPipeline(name) == \E i \in 1..Len(plugins) : plugins[i] = name

\* the string elements of the array under table t's "_".plugin
NamedIn(t, plugin) ==
    IF t \in DOMAIN Doc.tbl /\ as_table(Doc.tbl[t]) # NoneV
    THEN LET names == TableNamesOf(ConfigFor(PluginsTable(Doc.tbl[t]), plugin))
         IN {names[i].s : i \in {j \in 1..Len(names) : names[j].kind = "String"}}
    ELSE {}

\* the table named by table t's "_".reference.table
ReferredBy(t) ==
    IF t \in DOMAIN Doc.tbl /\ as_table(Doc.tbl[t]) # NoneV
    THEN LET config == ConfigFor(PluginsTable(Doc.tbl[t]), "reference")
         IN IF config.kind = "Table" /\ "table" \in DOMAIN config.tbl
               /\ config.tbl["table"].kind = "String"
            THEN {config.tbl["table"].s} ELSE {}
    ELSE {}

\* the (file, table) pairs of table t's "_".import
ImportedBy(t) ==
    IF t \in DOMAIN Doc.tbl /\ as_table(Doc.tbl[t]) # NoneV
    THEN LET config == ConfigFor(PluginsTable(Doc.tbl[t]), "import")
         IN IF config.kind = "Array" /\ ImportConfigOk(config)
            THEN {<<config.arr[i].tbl["file"].s, config.arr[i].tbl["table"].s>> :
                     i \in 1..Len(config.arr)}
            ELSE {}
    ELSE {}

\* table t's configuration for the plugin names t itself
SelfNames(t, plugin) ==
    CASE plugin \in {"before", "after"} -> t \in NamedIn(t, plugin)
      [] plugin = "reference" -> t \in ReferredBy(t)
      [] plugin = "import" -> <<MainFile, t>> \in ImportedBy(t)
      [] OTHER -> FALSE

\* the Before/After/Reference dependency graph of the document
Deps(t) == NamedIn(t, "before") \cup NamedIn(t, "after") \cup ReferredBy(t)

RECURSIVE ReachFrom(_, _)
ReachFrom(S, n) ==
    IF n = 0 THEN S ELSE ReachFrom(S \cup UNION {Deps(t) : t \in S}, n - 1)

Acyclic == \A t \in DOMAIN Doc.tbl : t \notin ReachFrom(Deps(t), Cardinality(DOMAIN Doc.tbl))

\* CycleDetected(t), bare or as process_plugins hands it on from plugin p
CycleErrors(t) ==
    {CycleDetected(t)}
    \cup {PluginError(p, Display(CycleDetected(t))) : p \in {"before", "after", "reference"}}

-----------------------------------------------------------------------------
(* C1..C10 *)

\* C1 (as claimed): whenever resolve_table_recursive returns, with Ok or with
\* any error, call_stack is what it was when that call was entered.
C1_PopOnEveryExit == [][FrameExit => call_stack' = StackAtEntry]_vars

\* C2: no table name occurs more than once in call_stack, in any state.
C2_NoNameTwice ==
    \A i, j \in 1..Len(call_stack) : i # j => call_stack[i] # call_stack[j]

\* C2 witness: a cycle was detected below two stacked names
C2_Witness ==
    /\ ret.status = "err"
    /\ ret.err.kind = "CycleDetected"
    /\ Len(call_stack) >= 2
    /\ Len(frames) >= 2

\* C3: resolve_table_recursive(T) called while T is on call_stack returns
\* CycleDetected(T); it pushes nothing, starts no frame (no extraction, no
\* plugin) and writes no value.
C3_CycleCheckFirst ==
    [][(pending # NoCall /\ \E i \in 1..Len(call_stack) : call_stack[i] = pending)
        => /\ ret' = ErrRet(CycleDetected(pending))
           /\ call_stack' = call_stack
           /\ frames' = frames
           /\ values' = values]_vars

\* C3 witness: the cycle check has just refused a name that is on the stack
C3_Witness ==
    /\ ret = ErrRet(CycleDetected("a"))
    /\ \E i \in 1..Len(call_stack) : call_stack[i] = "a"
    /\ frames # <<>>

\* the first table a Before array of table t names, or "" when it names none
FirstBefore(t) ==
    IF t \in DOMAIN Doc.tbl /\ as_table(Doc.tbl[t]) # NoneV
    THEN LET names == TableNamesOf(ConfigFor(PluginsTable(Doc.tbl[t]), "before"))
             first == NextName(names, 1)
         IN IF first = 0 THEN "" ELSE names[first].s
    ELSE ""

\* C4 (as claimed): for Before, After, Import and Reference alike, a table
\* whose configuration for the plugin names the table itself resolves to a
\* CycleDetected error.
C4_SelfNamingFourPlugins ==
    \A p \in {"before", "after", "import", "reference"} :
        (Returned /\ InPipeline(p) /\ SelfNames(RequestedTable, p))
            => /\ result.status = "err"
               /\ result.err \in CycleErrors(RequestedTable)
                                 \cup {PluginError("import",
                                           Display(CycleDetected(RequestedTable)))}

\* C4 (amended): for Before, After and Reference, when the plugin is in the
\* pipeline and table T's configuration for it names T, resolving T never
\* succeeds; the call of resolve_table_recursive(T) the plugin makes from T's
\* own frame returns CycleDetected(T), and T's frame returns it as
\* PluginError{plugin, "Cycle detected when processing table 'T'"}.
C4_SelfNamingThreePlugins ==
    /\ [](\A p \in {"before", "after", "reference"} :
            (Returned /\ InPipeline(p) /\ SelfNames(RequestedTable, p))
                => result.status = "err")
    /\ [][(frames # <<>> /\ pending # NoCall /\ pending = Top.table_name)
            => ret' = ErrRet(CycleDetected(pending))]_vars
    /\ [][(frames # <<>> /\ ret = ErrRet(CycleDetected(Top.table_name)))
            => ret' = ErrRet(PluginError(plugins[Top.pi],
                                         Display(CycleDetected(Top.table_name))))]_vars

\* C4 witness: table a, whose reference config names a, was resolved
C4_Witness ==
    /\ Returned
    /\ RequestedTable = "a"
    /\ SelfNames("a", "reference")
    /\ result.err = PluginError("reference", Display(CycleDetected("a")))

C6_Terminates ==
    [](Acyclic /\ (phase = "running" \/ frames # <<>>)
          => <>(phase = "idle" /\ frames = <<>>))

\* C6 witness: an acyclic document resolved through three nested frames
C6_Witness ==
    /\ Acyclic
    /\ Returned
    /\ result.status = "ok"
    /\ "c" \in Deps("b")
    /\ "b" \in Deps("a")
    /\ RequestedTable = "a"
    /\ InPipeline("before")

\* the keys other than "_" of the requested table
RequestedKeys == DOMAIN NonReserved(toml_file.tbl[RequestedTable])

\* C7 (as claimed): when resolve_table succeeds on an acyclic document, the
\* returned mapping has every key of the requested table other than "_".
C7_EveryKeyReturned ==
    (Returned /\ result.status = "ok" /\ Acyclic)
        => RequestedKeys \subseteq DOMAIN result.map

\* a plugin that writes the frame's table_values into resolver.values
MergingPipeline ==
    \E p \in {"before", "import", "templating", "reference"} : InPipeline(p)

\* C7 (amended): when resolve_table succeeds on an acyclic document and the
\* pipeline holds a plugin that merges (Before, Import, Templating or
\* Reference, as the command line's pipeline does), the returned mapping has
\* every key of the requested table other than "_".
C7_EveryKeyReturnedWhenMerging ==
    (Returned /\ result.status = "ok" /\ Acyclic /\ MergingPipeline)
        => RequestedKeys \subseteq DOMAIN result.map

\* C7 witness: the command line's pipeline returned a's keys and b's
C7_Witness ==
    /\ Returned
    /\ result.status = "ok"
    /\ Acyclic
    /\ plugins = CliPipeline
    /\ RequestedTable = "a"
    /\ DOMAIN result.map = {"k1", "k2", "k3"}

\* C8 (as claimed): whenever a resolve_table call can start, also after one
\* that returned an error, values and call_stack are empty.
C8_FreshStart == phase = "idle" => (call_stack = <<>> /\ values = EmptyMap)

\* C9: resolve_table returns Ok only when resolve_table_recursive returned
\* Ok, the mapping being the values, which it leaves empty; an error, once
\* returned by any frame, stays an error up to resolve_table's own return.
C9_MappingOrError ==
    /\ [](phase = "idle" /\ result.status = "ok" => values = EmptyMap)
    /\ [][ret.status = "err" => (ret'.status = "err" \/ result'.status = "err")]_vars
    /\ [][(phase = "running" /\ phase' = "idle")
            => \/ ret = OkRet /\ result' = OkResult(values)
               \/ ret.status = "err" /\ result' = ErrResult(ret.err)]_vars

\* C9 witness: a second call returned a mapping after a first that failed
C9_Witness ==
    /\ phase = "idle"
    /\ calls = MaxCalls
    /\ call_stack # <<>>
    /\ result.status = "ok"
    /\ result.map # EmptyMap

\* the errors process_plugins can be handed by a plugin that made none itself
BareErrors ==
    {FileRead(IoErrorMsg), TomlParse(ParseErrorMsg)}
    \cup UNION {{TableNotFound(n), InvalidTableType(n), CycleDetected(n)} :
                   n \in TableNames \cup {"nt", "zz"}}

PluginNames == {"before", "after", "import", "templating", "reference", "noop"}

\* errors that have gone through process_plugins once
OnceWrapped ==
    {PluginError(p, Display(b)) : p \in PluginNames, b \in BareErrors}
    \cup {PluginDeserialization(p, DeserializeMsg) : p \in PluginNames}

\* C10: process_plugins hands on a PluginError or PluginDeserialization as it
\* is and wraps any other error once, under the name of the plugin that
\* returned it; no error in flight or returned is a wrapped wrapped error.
C10_WrappedOnce ==
    /\ [](\A e \in {ret.err, result.err} :
            e.kind = "PluginError" => e.error \notin {Display(w) : w \in OnceWrapped})
    /\ [][(frames # <<>> /\ ret.status = "err")
            => ret' = ErrRet(IF ret.err.kind \in {"PluginError", "PluginDeserialization"}
                             THEN ret.err
                             ELSE PluginError(plugins[Top.pi], Display(ret.err)))]_vars

\* C10 witness: b was requested and the error of a's missing dependency came
\* back through the frames of a and of b
C10_Witness ==
    /\ Returned
    /\ RequestedTable = "b"
    /\ "zz" \notin Deps("b")
    /\ result.err = PluginError("before", Display(TableNotFound("zz")))

-----------------------------------------------------------------------------
(* C11..C20 *)

\* C11: when resolve_table_recursive(T) gets to the extraction (T has passed
\* the cycle check), it returns TableNotFound(T) if the document root has no
\* entry T and InvalidTableType(T) if the entry T is no table; in both cases
\* no frame is started for T, so no plugin runs for it and no value is written.
C11_ExtractionErrors ==
    [][(pending # NoCall /\ ~(\E i \in 1..Len(call_stack) : call_stack[i] = pending))
        => /\ pending \notin DOMAIN toml_file.tbl
                => /\ ret' = ErrRet(TableNotFound(pending))
                   /\ frames' = frames
                   /\ values' = values
           /\ (pending \in DOMAIN toml_file.tbl
                  /\ toml_file.tbl[pending].kind # "Table")
                => /\ ret' = ErrRet(InvalidTableType(pending))
                   /\ frames' = frames
                   /\ values' = values]_vars

\* C11 witness: the extraction of nt, an entry that is no table, has just
\* failed in a resolution that came after the extraction of zz, which the
\* document does not have, had failed
C11_Witness ==
    /\ ret = ErrRet(InvalidTableType("nt"))
    /\ call_stack = <<"zz", "a", "nt">>
    /\ Len(frames) = 1

\* C12 (as claimed): in every state neither a frame's table_values nor
\* resolver.values has the key "_".
C12_NoReservedKey ==
    /\ "_" \notin DOMAIN values
    /\ \A i \in 1..Len(frames) : "_" \notin DOMAIN frames[i].table_values

\* the table name the running (or last) resolve_table call was given and the
\* file it was given, as the second Resolver's first call has them
SecondReturned ==
    /\ other # NoOther
    /\ phase = "idle"
    /\ calls = 1
    /\ file_path.s = other.path
    /\ RequestedTable = other.table_name

\* C13 (as claimed): two Resolvers built with the same pipeline and given
\* the same file, table name and environment return the same outcome, the
\* same mapping or the same error.
C13_SameOutcome == SecondReturned => result = other.result

\* the string elements, in order, of table t's "_".before
BeforeNames(t) == TableNamesOf(ConfigFor(PluginsTable(Doc.tbl[t]), "before"))

\* C14: Before.process calls resolve_table_recursive for every name of its
\* config, changing neither values nor table_values itself, and only when
\* none is left writes table_values into values (table_values winning on a
\* key both have), table_values staying as it was; with the command line's
\* pipeline a table that names dependencies in Before resolves to its own
\* keys with its own values together with the dependencies' keys (a = {k1 =
\* 1, k2}, b = {k1 = 2, k3}, a._.before = [b] gives {k1 = 1, k2, k3}).
C14_BeforeThenMerge ==
    /\ [][(AtPlugin("before") /\ pending' # NoCall)
            => /\ values' = values
               /\ frames'[Len(frames)].table_values = Top.table_values]_vars
    /\ [][(AtPlugin("before") /\ pending' = NoCall /\ Len(frames') = Len(frames))
            => /\ NextName(TableNamesOf(ConfigFor(Top.plugins_table, "before")),
                           Top.ci) = 0
               /\ values' = MergeInto(values, Top.table_values)
               /\ frames'[Len(frames)].table_values = Top.table_values]_vars
    /\ []((/\ Returned
           /\ result.status = "ok"
           /\ plugins = CliPipeline
           /\ RequestedTable = "a"
           /\ Doc \notin TemplateRoots
           /\ FirstBefore("a") # ""
           /\ DOMAIN PluginsTable(Doc.tbl["a"]).tbl = {"before"})
            => /\ \A k \in DOMAIN DataA : k \in DOMAIN result.map /\ result.map[k] = DataA[k]
               /\ \A i \in 1..Len(BeforeNames("a")) :
                     BeforeNames("a")[i].kind = "String"
                        => DOMAIN NonReserved(Doc.tbl[BeforeNames("a")[i].s])
                              \subseteq DOMAIN result.map
               /\ (BeforeNames("a") = <<StrV("b")>> /\ PluginsTable(Doc.tbl["b"]) = NoneV)
                     => result.map = MergeInto(DataB, DataA))

\* C14 witness: a, whose Before names b, resolved to its own k1 and k2 and to
\* b's k3
C14_Witness ==
    /\ Returned
    /\ result.status = "ok"
    /\ plugins = CliPipeline
    /\ RequestedTable = "a"
    /\ Doc \notin TemplateRoots
    /\ BeforeNames("a") = <<StrV("b")>>
    /\ PluginsTable(Doc.tbl["b"]) = NoneV
    /\ result.map = [k \in {"k1", "k2", "k3"} |->
                        CASE k = "k1" -> IntV(1) [] k = "k2" -> StrV("x")
                          [] OTHER -> StrV("y")]

\* After is the plugin the innermost frame is in
TopInAfter == frames # <<>> /\ Top.pi <= Len(plugins) /\ plugins[Top.pi] = "after"

\* C15: no step taken while After is the plugin of the innermost frame (a
\* step of After.process, a call it makes, a return it receives) changes
\* resolver.values or that frame's table_values: with nothing to resolve
\* After leaves both as they were and returns, and what changes in values
\* while After runs is written in the frames of the tables it resolves; a
\* pipeline of After alone never writes a value.
C15_AfterWritesNothing ==
    /\ [][TopInAfter
            => /\ values' = values
               /\ Len(frames') >= Len(frames)
                    => frames'[Len(frames)].table_values = Top.table_values]_vars
    /\ [][(AtPlugin("after")
             /\ NextName(TableNamesOf(ConfigFor(Top.plugins_table, "after")), 1) = 0)
            => /\ values' = values
               /\ frames' = SetTop([Top EXCEPT !.pi = @ + 1])
               /\ pending' = NoCall]_vars
    /\ [](plugins = <<"after">> => values = EmptyMap)

\* C15 witness: After of table a has had b resolved, whose plugins wrote k3,
\* and a's table_values are as they were
C15_Witness ==
    /\ Len(frames) = 1
    /\ TopInAfter
    /\ Top.table_name = "a"
    /\ Top.ci = 2
    /\ ret = NoRet
    /\ Top.table_values = DataA
    /\ "k3" \in DOMAIN values
    /\ values["k1"] = IntV(2)

\* Import.process of the innermost frame returns Ok on this step
ImportStepOk == AtPlugin("import") /\ Len(frames') = Len(frames)

\* the Import configuration of the innermost frame, and the table its entry
\* number i names, as the file has it
TopImportConfig == ConfigFor(Top.plugins_table, "import")

ImportedTable(i) ==
    files[TopImportConfig.arr[i].tbl["file"].s]
        .root.tbl[TopImportConfig.arr[i].tbl["table"].s].tbl

\* C16: when Import.process returns Ok for entries without key_format,
\* table_values has every key of every imported table with the value of the
\* last entry of the array that has the key, also where the table had a
\* value of its own, and keeps its other entries as they were.
C16_ImportOverwrites ==
    [][(/\ ImportStepOk
        /\ TopImportConfig.kind = "Array"
        /\ \A i \in 1..Len(TopImportConfig.arr) :
              "key_format" \notin DOMAIN TopImportConfig.arr[i].tbl)
        => LET n == Len(TopImportConfig.arr)
               keys == UNION {DOMAIN ImportedTable(i) : i \in 1..n}
               last(k) == CHOOSE i \in 1..n :
                             /\ k \in DOMAIN ImportedTable(i)
                             /\ \A j \in (i + 1)..n : k \notin DOMAIN ImportedTable(j)
           IN frames'[Len(frames)].table_values
                = [k \in DOMAIN Top.table_values \cup keys |->
                      IF k \in keys THEN ImportedTable(last(k))[k]
                      ELSE Top.table_values[k]]]_vars

\* C16 witness: a = {k1 = 1, k2 = "x"} has imported e = {k2 = "e", k4 = 4}
\* and then e2 = {k2 = "f"}
C16_Witness ==
    /\ Len(frames) = 1
    /\ Top.table_name = "a"
    /\ Top.pi > 1
    /\ plugins[Top.pi - 1] = "import"
    /\ Top.table_values = [k \in {"k1", "k2", "k4"} |->
                              CASE k = "k1" -> IntV(1) [] k = "k2" -> StrV("f")
                                [] OTHER -> IntV(4)]

\* C17: when Import.process returns Ok for the one entry {file, table,
\* key_format = "{{key}}_id"}, table_values has, for every key k of the
\* imported table, the key k_id with k's value as the file has it, keeps its
\* own entries as they were and has no other key: the raw keys are not
\* inserted. (The template is rendered among the resolved values; the case
\* of a resolved value that is itself named key is C37's.)
C17_KeyFormatOnly ==
    [][(/\ ImportStepOk
        /\ "key" \notin DOMAIN values
        /\ TopImportConfig.kind = "Array"
        /\ Len(TopImportConfig.arr) = 1
        /\ "key_format" \in DOMAIN TopImportConfig.arr[1].tbl
        /\ TopImportConfig.arr[1].tbl["key_format"] = StrV("{{key}}_id"))
        => LET new == frames'[Len(frames)].table_values
           IN /\ DOMAIN new = DOMAIN Top.table_values
                                \cup {k \o "_id" : k \in DOMAIN ImportedTable(1)}
              /\ \A k \in DOMAIN ImportedTable(1) : new[k \o "_id"] = ImportedTable(1)[k]
              /\ \A k \in DOMAIN Top.table_values : new[k] = Top.table_values[k]]_vars

\* C17 witness: a = {k1 = 1, k2 = "x"} has imported e = {k2 = "e", k4 = 4}
\* with key_format "{{key}}_id"
C17_Witness ==
    /\ Len(frames) = 1
    /\ Top.table_name = "a"
    /\ Top.pi > 1
    /\ plugins[Top.pi - 1] = "import"
    /\ DOMAIN Top.table_values = {"k1", "k2", "k2_id", "k4_id"}
    /\ Top.table_values["k2"] = StrV("x")
    /\ Top.table_values["k2_id"] = StrV("e")
    /\ Top.table_values["k4_id"] = IntV(4)

\* texts that name the external file and the table
PathMessages(file, table) ==
    {"Table '" \o table \o "' not found in file '" \o file \o "'",
     "Table '" \o table \o "' in file '" \o file \o "' is not a table",
     "Item '" \o table \o "' in file '" \o file \o "' is not a table"}

\* C18 (as claimed): Import.process of an entry whose file loads fails with
\* TableNotFound when the file has no entry of the table's name and with
\* InvalidTableType when the entry is no table, the message naming the
\* file's path (process_plugins hands the error on as PluginError{import}).
C18_ImportErrorKinds ==
    [][(/\ AtPlugin("import")
        /\ TopImportConfig.kind = "Array"
        /\ Len(TopImportConfig.arr) = 1
        /\ ImportConfigOk(TopImportConfig)
        /\ TopImportConfig.arr[1].tbl["file"].s = ExtFile)
        => LET file == TopImportConfig.arr[1].tbl["file"].s
               table == TopImportConfig.arr[1].tbl["table"].s
               root == files[file].root.tbl
           IN /\ table \notin DOMAIN root
                   => \E m \in PathMessages(file, table) :
                         ret' = ErrRet(PluginError("import", Display(TableNotFound(m))))
              /\ (table \in DOMAIN root /\ root[table].kind # "Table")
                   => \E m \in PathMessages(file, table) :
                         ret' = ErrRet(PluginError("import",
                                                   Display(InvalidTableType(m))))]_vars

\* the transformation of a value as claimed: strings with a delimiter are
\* rendered, arrays and tables are rebuilt from their transformed parts
RECURSIVE Transformed(_, _)
Transformed(v, context) ==
    CASE v.kind = "String" /\ HasDelimiter(v.s) ->
            StrV(RenderPieces(TemplateTable[v.s].pieces, JinjaContext(context),
                              EnvironmentNew).text)
      [] v.kind = "Array" ->
            ArrV([i \in 1..Len(v.arr) |-> Transformed(v.arr[i], context)])
      [] v.kind = "Table" ->
            TblV([k \in DOMAIN v.tbl |-> Transformed(v.tbl[k], context)])
      [] OTHER -> v

\* C19 (as claimed): when Templating.process returns Ok, every entry of
\* table_values is its recursive transformation against resolver.values:
\* template strings are rendered wherever they are, also inside arrays and
\* tables, and everything else is as it was.
C19_TemplatingRecursive ==
    [][(AtPlugin("templating") /\ Len(frames') = Len(frames))
        => frames'[Len(frames)].table_values
             = [k \in DOMAIN Top.table_values |->
                   Transformed(Top.table_values[k], values)]]_vars

\* C20 (as claimed): with the command line's pipeline, a = {k2 = "{{
\* env_or('X', 'd') }}"} resolves to k2 = "d" when X is unset and to k2 = the
\* value of X when it is set, and b = {k2 = "{{ env('X') }}"} resolves to the
\* value of X when X is set.
C20_EnvFunctionsInTemplating ==
    (Returned /\ plugins = CliPipeline /\ Doc = TplRootEnv)
        => /\ RequestedTable = "a"
                => /\ result.status = "ok"
                   /\ result.map["k2"]
                        = StrV(IF EnvVar \in DOMAIN environ THEN environ[EnvVar] ELSE "d")
           /\ (RequestedTable = "b" /\ EnvVar \in DOMAIN environ)
                => /\ result.status = "ok"
                   /\ result.map["k2"] = StrV(environ[EnvVar])

-----------------------------------------------------------------------------
(* C21..C30 *)

\* Reference.process of the innermost frame, whose config names a table,
\* returns Ok on this step
ReferenceStepOk ==
    /\ AtPlugin("reference")
    /\ Len(frames') = Len(frames)
    /\ pending' = NoCall
    /\ ConfigFor(Top.plugins_table, "reference").kind = "Table"
    /\ "table" \in DOMAIN ConfigFor(Top.plugins_table, "reference").tbl

\* the non-reserved keys of the table the innermost frame's Reference names
ReferredKeys ==
    DOMAIN NonReserved(toml_file.tbl[ConfigFor(Top.plugins_table,
                                               "reference").tbl["table"].s])

\* C21: when Reference.process returns Ok with config table = T,
\* resolver.values has every non-reserved key of T with the value T's
\* resolution gave it.
C21_ReferenceKeepsReferred ==
    [][ReferenceStepOk
        => \A k \in ReferredKeys :
              k \in DOMAIN values /\ k \in DOMAIN values' /\ values'[k] = values[k]]_vars

\* C22: when Noop.process returns Ok, every entry of the frame's
\* table_values is in resolver.values with the same value.
C22_NoopMerges ==
    [][(AtPlugin("noop") /\ Len(frames') = Len(frames))
        => \A k \in DOMAIN Top.table_values :
              k \in DOMAIN values' /\ values'[k] = Top.table_values[k]]_vars

\* C23: a template that reads _.args.table_name renders to the name of the
\* table the session was asked for, and one that reads _.args.output_format
\* renders to an output format.
C23_MetaInTemplates ==
    (Returned /\ Doc = TplRootMeta /\ toml_file # NoneV /\ RequestedTable \in {"a", "b"})
        => /\ result.status = "ok"
           /\ RequestedTable = "a" => result.map["k2"] = StrV("a")
           /\ RequestedTable = "b"
                => result.map["k2"] \in {StrV(f) : f \in Formats \cup OutputFormats}

\* C24: the command-line program prints nothing while it runs; when the
\* resolution returned an error (or the file's directory could not be
\* entered) it has written nothing to standard output, the line "Error: "
\* with the error's message to standard error, and exits with a non-zero
\* status; standard output holds something only when the resolution
\* succeeded, and then it is the formatted mapping and the status is 0.
C24_ErrorsToStderr ==
    /\ (cli_args # NoArgs /\ ~exit_status.some) => (stdout = <<>> /\ stderr = <<>>)
    /\ (exit_status.some /\ result.status = "err")
          => /\ stdout = <<>>
             /\ stderr = << <<"Error: " \o Display(result.err)>> >>
             /\ exit_status.code # 0
    /\ (exit_status.some /\ result = NoResult)
          => /\ stdout = <<>>
             /\ stderr = << <<"Error: " \o change_to_file_directory(cli_args.file).err>> >>
             /\ exit_status.code # 0
    /\ (cli_args # NoArgs /\ stdout # <<>>)
          => /\ result.status = "ok"
             /\ stderr = <<>>
             /\ exit_status = Exit(0)
             /\ stdout = <<format_as_exports(result.map).text>>

\* C24 witness: the program has exited with status 1 after a plugin failed,
\* the failed table still on the call stack
C24_Witness ==
    /\ exit_status = Exit(1)
    /\ result.err.kind = "PluginError"
    /\ call_stack # <<>>
    /\ Len(stderr) = 1

RECURSIVE BackslashesBefore(_, _)
\* how many backslashes stand right before position i of a text
BackslashesBefore(text, i) ==
    IF i > 1 /\ text[i - 1] = Backslash THEN 1 + BackslashesBefore(text, i - 1) ELSE 0

\* the double quotes format_as_exports puts around KEY=VALUE: the one after
\* "export " and the one that ends a line
AroundLine(text, i) ==
    \/ i > 1 /\ text[i - 1] = "export "
    \/ i = Len(text)
    \/ i < Len(text) /\ text[i + 1] = "\n"

\* C25: in what the exports format prints, every double quote other than the
\* two around KEY=VALUE is escaped (an odd number of backslashes before it).
C25_ExportsEscapeQuotes ==
    (exit_status = Exit(0) /\ cli_args.output = "exports")
        => \A i \in 1..Len(stdout[1]) :
              (stdout[1][i] = Quote /\ ~AroundLine(stdout[1], i))
                  => BackslashesBefore(stdout[1], i) % 2 = 1

\* C26: a frame starts with the first plugin of the pipeline; its position in
\* the pipeline moves by one at a time, and only on a step of the innermost
\* frame where no call is being made and no error is returned (the plugin
\* returned Ok); the frame returns Ok only after the last plugin; and no key
\* leaves resolver.values while the session runs, so a plugin finds there what
\* the plugins before it and their nested frames wrote.
C26_PipelineOrder ==
    [][/\ \A d \in 1..Len(frames) :
             d <= Len(frames')
                => /\ frames'[d].table_name = frames[d].table_name
                   /\ frames'[d].pi \in {frames[d].pi, frames[d].pi + 1}
                   /\ (frames'[d].pi = frames[d].pi + 1)
                        => (/\ d = Len(frames) /\ d = Len(frames')
                            /\ pending = NoCall /\ pending' = NoCall
                            /\ ret = NoRet /\ ret' = NoRet)
       /\ Len(frames') > Len(frames) => frames'[Len(frames')].pi = 1
       /\ (Len(frames') < Len(frames) /\ ret'.status = "ok")
            => Top.pi = Len(plugins) + 1
       /\ (phase = "running" /\ phase' = "running")
            => DOMAIN values \subseteq DOMAIN values']_vars

\* C26 witness: under the command line's pipeline the frame of b, called by
\* a's Before, is past its fourth plugin while a is still at its first
C26_Witness ==
    /\ plugins = CliPipeline
    /\ Len(frames) = 2
    /\ frames[1].table_name = "a" /\ frames[1].pi = 1
    /\ frames[2].table_name = "b" /\ frames[2].pi = Len(plugins) + 1
    /\ DOMAIN values = {"k1", "k3"}

\* the plugin (Before or After) the innermost frame is in, "" for another
ListPlugin ==
    IF AtPlugin("before") THEN "before" ELSE IF AtPlugin("after") THEN "after" ELSE ""

\* the array of the innermost frame's Before or After
ListNames == TableNamesOf(ConfigFor(Top.plugins_table, ListPlugin))

\* C27: Before and After call resolve_table_recursive for the string elements
\* of their array in array order, leaving none out; after a call they go on
\* only when it returned Ok, and they return Ok only when no string element
\* is left; of two listed tables that have the same key the later one's value
\* is the one in the result.
C27_ArrayOrder ==
    [][/\ (ListPlugin # "" /\ pending' # NoCall)
            => /\ frames'[Len(frames')].ci \in Top.ci..Len(ListNames)
               /\ ListNames[frames'[Len(frames')].ci] = StrV(pending')
               /\ \A j \in Top.ci..(frames'[Len(frames')].ci - 1) :
                     ListNames[j].kind # "String"
       /\ (ListPlugin # "" /\ pending' = NoCall /\ Len(frames') = Len(frames))
            => \A j \in Top.ci..Len(ListNames) : ListNames[j].kind # "String"
       /\ (frames # <<>> /\ ret # NoRet /\ Len(frames') = Len(frames))
            => ret = OkRet /\ frames'[Len(frames')].ci = Top.ci + 1
       /\ (/\ phase = "running" /\ phase' = "idle" /\ result'.status = "ok"
           /\ plugins = CliPipeline
           /\ RequestedTable = "a" /\ Doc \notin TemplateRoots
           /\ BeforeNames("a") = <<StrV("b"), StrV("c")>>)
            => result'.map["k3"] = StrV("")]_vars

\* C27 witness: a, whose Before names b and c, is resolved: k3, which both b
\* and c have, holds what c's template rendered to
C27_Witness ==
    /\ Returned /\ result.status = "ok" /\ plugins = CliPipeline
    /\ RequestedTable = "a" /\ Doc \notin TemplateRoots
    /\ BeforeNames("a") = <<StrV("b"), StrV("c")>>
    /\ PluginsTable(Doc.tbl["b"]) = NoneV
    /\ result.map = [k \in {"k1", "k2", "k3"} |->
                        CASE k = "k1" -> IntV(1) [] k = "k2" -> StrV("x")
                          [] OTHER -> StrV("")]

\* C28: while an error is on its way back to resolve_table, resolver.values
\* is not written, no call of resolve_table_recursive is made, no frame is
\* added and the frames that remain are not touched (no plugin runs); each
\* step hands an error on, and resolve_table returns the error it receives.
C28_ErrorStopsAll ==
    [][ret.status = "err"
        => /\ values' = values
           /\ stdout' = stdout
           /\ pending' = NoCall
           /\ Len(frames') <= Len(frames)
           /\ \A d \in 1..Len(frames') : frames'[d] = frames[d]
           /\ IF frames = <<>>
              THEN phase' = "idle" /\ result' = ErrResult(ret.err)
              ELSE ret'.status = "err"]_vars

\* C28 witness: a's Before names zz, which is missing, and b; the error is
\* returned, b was never resolved and nothing was written
C28_Witness ==
    /\ Returned
    /\ RequestedTable = "a"
    /\ BeforeNames("a") = <<StrV("zz"), StrV("b")>>
    /\ result = ErrResult(PluginError("before", Display(TableNotFound("zz"))))
    /\ values = EmptyMap
    /\ calls = 1

\* the array of table t's "_".after
AfterNames(t) == TableNamesOf(ConfigFor(PluginsTable(Doc.tbl[t]), "after"))

\* C29: while a session runs, resolver.values changes only on a step of a
\* plugin of the innermost frame; with the empty pipeline or with After alone
\* a resolve_table that returns Ok returns the empty mapping, and with the
\* empty pipeline every table of the document is resolved so.
C29_OnlyPluginsWrite ==
    [][/\ (phase = "running" /\ phase' = "running" /\ values' # values)
            => \E name \in PluginNames : AtPlugin(name)
       /\ (phase = "running" /\ phase' = "idle" /\ result'.status = "ok"
              /\ plugins \in {<<>>, <<"after">>})
            => result'.map = EmptyMap
       /\ (phase = "running" /\ phase' = "idle" /\ plugins = <<>>
              /\ RequestedTable \in TableNames)
            => result' = OkResult(EmptyMap)]_vars

\* C29 witness: with After alone, a (whose After names b) resolved to the
\* empty mapping
C29_Witness ==
    /\ plugins = <<"after">>
    /\ Returned
    /\ RequestedTable = "a"
    /\ AfterNames("a") = <<StrV("b")>>
    /\ result = OkResult(EmptyMap)

\* C30: the table_values of a frame change only on a step of a plugin of
\* that frame while it is the innermost one (never while a resolution it
\* triggered runs or returns), and a new frame's table_values are the
\* non-reserved entries of its own table.
C30_LocalValuesPerFrame ==
    [][/\ \A d \in 1..Len(frames) :
             (d <= Len(frames') /\ frames'[d].table_values # frames[d].table_values)
                => /\ d = Len(frames) /\ d = Len(frames')
                   /\ \E name \in PluginNames : AtPlugin(name)
       /\ Len(frames') > Len(frames)
            => frames'[Len(frames')].table_values =
                  NonReserved(toml_file.tbl[frames'[Len(frames')].table_name])]_vars

\* C30 witness: b, resolved for a's Before, has returned and left its k3 in
\* resolver.values; a's table_values are a's own entries
C30_Witness ==
    /\ plugins = CliPipeline
    /\ Len(frames) = 1
    /\ ret = OkRet
    /\ Top.table_name = "a"
    /\ Top.table_values = DataA
    /\ "k3" \in DOMAIN values

-----------------------------------------------------------------------------
(* C31..C40 *)

\* C31: a step of Import.process that returns Ok (the frame goes on to the
\* next plugin) leaves in resolver.values every entry of the final
\* table_values, which holds every key the table had, and every other value
\* as it was, with or without an import configuration; a step that returns
\* an error (the frame is gone and the error is on its way up) leaves
\* resolver.values as it was.
C31_ImportMergesOrWritesNothing ==
    [][AtPlugin("import")
        => /\ Len(frames') = Len(frames)
                => LET final == frames'[Len(frames)].table_values
                   IN /\ DOMAIN Top.table_values \subseteq DOMAIN final
                      /\ DOMAIN values' = DOMAIN values \cup DOMAIN final
                      /\ \A k \in DOMAIN final : values'[k] = final[k]
                      /\ \A k \in DOMAIN values \ DOMAIN final : values'[k] = values[k]
           /\ Len(frames') < Len(frames)
                => /\ ret'.status = "err"
                   /\ values' = values]_vars

\* C31 witness: a = {k1 = 1, k2 = "x"} imports e and then a table of a file
\* that does not parse: the error is returned and resolver.values has a's
\* own entries, which Before merged, and nothing of e
C31_Witness ==
    /\ frames = <<>>
    /\ Doc = RootOf(TblV(Map1("import", ArrV(<<ImportEntry(ExtFile, "e"),
                                               ImportEntry(BadFile, "e")>>))),
                    NoneV, NoneV)
    /\ ret = ErrRet(PluginError("import", Display(TomlParse(ParseErrorMsg))))
    /\ values = DataA

\* the messages the template engine gives in the model: what template_from_str
\* says of a string it refuses and what render says of a template it cannot
\* render
EngineMessages ==
    {TemplateTable[s].msg : s \in {t \in DOMAIN TemplateTable : ~TemplateTable[t].ok}}
    \cup {"undefined value"}
    \cup {"unknown function: " \o f \o " is unknown" : f \in {"env", "env_or"}}

\* the entries of the top frame's table_values that the engine refuses
FailingEntries ==
    {k \in DOMAIN Top.table_values :
        ~process_value_with_jinja(Top.table_values[k], values).ok}

\* C32: a step of Templating.process returns an error exactly when an entry
\* of table_values fails to parse or to render; the error is then
\* PluginError{templating} with the engine's message after "Template error: "
\* or "Render error: ", and resolver.values is as it was (table_values is
\* dropped with the frame). When it returns Ok, table_values has the keys it
\* had, each with its transformed value, and resolver.values has that same
\* value for each of these keys and its other values as they were.
C32_TemplatingAllOrNothing ==
    [][AtPlugin("templating")
        => /\ FailingEntries # {} <=> Len(frames') < Len(frames)
           /\ Len(frames') < Len(frames)
                => /\ ret'.status = "err"
                   /\ ret'.err.kind = "PluginError"
                   /\ ret'.err.plugin_name = "templating"
                   /\ \E m \in EngineMessages :
                         ret'.err.error \in {"Template error: " \o m, "Render error: " \o m}
                   /\ values' = values
           /\ Len(frames') = Len(frames)
                => LET new == frames'[Len(frames)].table_values
                   IN /\ DOMAIN new = DOMAIN Top.table_values
                      /\ \A k \in DOMAIN new :
                            /\ new[k] = process_value_with_jinja(Top.table_values[k],
                                                                 values).value
                            /\ values'[k] = new[k]
                      /\ DOMAIN values' = DOMAIN values \cup DOMAIN new
                      /\ \A k \in DOMAIN values \ DOMAIN new : values'[k] = values[k]]_vars

\* C32 witness: b = {k2 = "{{ _.args.output_format }}", k3 = "{{ k1 }}"}: k3
\* renders (to the empty string), k2 does not; the error is returned and
\* resolver.values has k3 as the document has it
C32_Witness ==
    /\ frames = <<>>
    /\ Doc = TplRootMeta
    /\ RequestedTable = "b"
    /\ ret = ErrRet(PluginError("templating", "Render error: undefined value"))
    /\ values = Doc.tbl["b"].tbl

\* C33: the step in which Reference.process returns Ok, with a table
\* configured (the referenced table is resolved by then) or without, leaves
\* in resolver.values every entry of the frame's table_values with the
\* frame's value, also where the referenced table's resolution had left
\* another value, and every other value as it was.
C33_ReferenceMergesOwn ==
    [][(AtPlugin("reference") /\ Len(frames') = Len(frames) /\ pending' = NoCall)
        => /\ DOMAIN values' = DOMAIN values \cup DOMAIN Top.table_values
           /\ \A k \in DOMAIN Top.table_values : values'[k] = Top.table_values[k]
           /\ \A k \in DOMAIN values \ DOMAIN Top.table_values :
                 values'[k] = values[k]]_vars

\* C33 witness: a = {k1 = 1, k2 = "x"} refers to b = {k1 = 2, k3 = "y"}, and
\* Reference has returned Ok for a: k1 is a's, k3 is b's
C33_Witness ==
    /\ plugins = <<"reference">>
    /\ Len(frames) = 1
    /\ Top.table_name = "a"
    /\ Top.pi = 2
    /\ ConfigFor(Top.plugins_table, "reference") = TblV(Map1("table", StrV("b")))
    /\ values = [k \in {"k1", "k2", "k3"} |->
                    CASE k = "k1" -> IntV(1) [] k = "k2" -> StrV("x")
                      [] OTHER -> StrV("y")]

\* the tables of the loaded document
TablesOfDocument ==
    IF as_table(toml_file) = NoneV THEN {}
    ELSE {n \in DOMAIN toml_file.tbl : as_table(toml_file.tbl[n]) # NoneV}

\* C34: call_stack never holds more names than the loaded document has
\* tables, plus one for a name that is no table of the document.
C34_StackBounded == Len(call_stack) <= Cardinality(TablesOfDocument) + 1

\* C35: when a frame of resolve_table_recursive pops (it returns Ok), the
\* last name of call_stack is the frame's table and that one name is
\* removed; and when resolve_table returns Ok, call_stack is empty.
C35_LifoAndEmpty ==
    [][/\ (Len(frames') < Len(frames) /\ ret'.status = "ok")
            => /\ call_stack # <<>>
               /\ call_stack[Len(call_stack)] = Top.table_name
               /\ call_stack' = SubSeq(call_stack, 1, Len(call_stack) - 1)
       /\ (phase = "running" /\ phase' = "idle" /\ result'.status = "ok")
            => call_stack' = <<>>]_vars

\* the errors resolve_table_recursive returns by itself
BareKinds == {"TableNotFound", "InvalidTableType", "CycleDetected"}

\* the tables that table t's configuration of plugin p makes p resolve
DepsVia(t, p) == IF p = "reference" THEN ReferredBy(t) ELSE NamedIn(t, p)

\* the errors resolve_table_recursive(n) can return by itself
OwnErrors(n) == {TableNotFound(n), InvalidTableType(n), CycleDetected(n)}

\* C36: a bare TableNotFound, InvalidTableType or CycleDetected that arrives
\* at a frame is about a table which the configuration of the frame's
\* running plugin names, and leaves the frame as a PluginError of that
\* plugin with the error's message; a PluginError passes through every
\* further frame as it is. So when resolve_table returns a bare error of
\* these kinds it is about the requested table, and when it returns a
\* PluginError of Before, After or Reference, a table reachable from the
\* requested one names, in its configuration of that plugin, the table the
\* message is about.
C36_DependencyErrorsWrapped ==
    [][/\ (frames # <<>> /\ ret.status = "err" /\ ret.err.kind \in BareKinds)
            => /\ ret.err.error \in DepsVia(Top.table_name, plugins[Top.pi])
               /\ ret' = ErrRet(PluginError(plugins[Top.pi], Display(ret.err)))
       /\ (frames # <<>> /\ ret.status = "err" /\ ret.err.kind = "PluginError")
            => ret' = ret
       /\ (phase = "running" /\ phase' = "idle" /\ result'.status = "err")
            => /\ result'.err.kind \in BareKinds => result'.err.error = RequestedTable
               /\ \A p \in {"before", "after", "reference"} :
                     (result'.err.kind = "PluginError" /\ result'.err.plugin_name = p)
                        => \E t \in ReachFrom({RequestedTable}, Cardinality(DOMAIN Doc.tbl)) :
                              \E n \in DepsVia(t, p) :
                                 result'.err.error \in {Display(e) : e \in OwnErrors(n)}]_vars

\* C36 witness: a = {_.before = ["b"], _.after = ["c"]}, c = {_.before =
\* ["a"]}: CycleDetected(a) arose in c's frame, which After had started from
\* a's frame, and a's caller has it as a PluginError of Before
C36_Witness ==
    /\ Returned
    /\ RequestedTable = "a"
    /\ Doc = RootOf(TblV(Map2("before", Names(<<"b">>), "after", Names(<<"c">>))),
                    NoneV, TblV(Map1("before", Names(<<"a">>))))
    /\ result.err = PluginError("before", Display(CycleDetected("a")))

\* C37: when Import.process returns Ok for the one entry {file, table,
\* key_format = "{{key}}_id"}, every pair (k, v) of the imported table is in
\* table_values as (k_id, v), whatever resolver.values holds: the variable
\* key is the pair's own key, also when a resolved value is named key.
C37_KeyIsRawKey ==
    [][(/\ ImportStepOk
        /\ TopImportConfig.kind = "Array"
        /\ Len(TopImportConfig.arr) = 1
        /\ "key_format" \in DOMAIN TopImportConfig.arr[1].tbl
        /\ TopImportConfig.arr[1].tbl["key_format"] = StrV("{{key}}_id"))
        => LET new == frames'[Len(frames)].table_values
           IN \A k \in DOMAIN ImportedTable(1) :
                 /\ (k \o "_id") \in DOMAIN new
                 /\ new[k \o "_id"] = ImportedTable(1)[k]]_vars

\* the positions, from the one the top frame's plugin has come to, at which
\* its configuration has a string
StringsLeft(config) ==
    IF config.kind = "Array"
    THEN {j \in Top.ci..Len(config.arr) : config.arr[j].kind = "String"}
    ELSE {}

\* C38: a step of Before.process or After.process never returns an error of
\* its own, whatever the configuration is: with a string left in an array
\* configuration it calls resolve_table_recursive for one, and otherwise (no
\* array, or only elements that are no strings left) it returns Ok, Before
\* having merged table_values; and no error is ever a PluginDeserialization
\* of Before or After.
C38_NoConfigError ==
    [][/\ \A p \in {"before", "after"} :
             AtPlugin(p)
                => LET config == ConfigFor(Top.plugins_table, p)
                   IN /\ ret' = NoRet
                      /\ Len(frames') = Len(frames)
                      /\ StringsLeft(config) # {}
                            => pending' \in {config.arr[j].s : j \in StringsLeft(config)}
                      /\ StringsLeft(config) = {}
                            => /\ pending' = NoCall
                               /\ frames'[Len(frames)].pi = Top.pi + 1
                               /\ p = "before"
                                    => \A k \in DOMAIN Top.table_values :
                                          values'[k] = Top.table_values[k]
       /\ ret'.err.kind = "PluginDeserialization"
            => ret'.err.plugin_name \notin {"before", "after"}]_vars

\* C38 witness: a = {k1 = 1, k2 = "x", _.before = [1, "b"]}: Before has
\* skipped the 1, resolved b = {k1 = 2, k3 = "y"} and merged a's entries
C38_Witness ==
    /\ Len(frames) = 1
    /\ Top.table_name = "a"
    /\ Top.pi = 2
    /\ plugins[1] = "before"
    /\ ConfigFor(Top.plugins_table, "before") = ArrV(<<IntV(1), StrV("b")>>)
    /\ values = [k \in {"k1", "k2", "k3"} |->
                    CASE k = "k1" -> IntV(1) [] k = "k2" -> StrV("x")
                      [] OTHER -> StrV("y")]

\* the top frame's table has no configuration for the plugin: no "_" entry,
\* a "_" entry that is no table, or no entry of the plugin's name in it
ConfigAbsent(name) ==
    Top.plugins_table = NoneV \/ name \notin DOMAIN Top.plugins_table.tbl

\* C39: a plugin that runs for a table without a configuration for it does
\* not fail on the configuration: no PluginDeserialization comes of the
\* step, and every plugin but Templating (whose own work can fail on the
\* table's templates) returns Ok and the frame goes on to the next plugin.
\* This is so for each built-in plugin, Noop included.
C39_AbsentConfigRuns ==
    [][\A name \in PluginNames :
          (AtPlugin(name) /\ ConfigAbsent(name))
             => /\ ret'.err.kind # "PluginDeserialization"
                /\ name # "templating"
                     => /\ ret' = NoRet
                        /\ pending' = NoCall
                        /\ Len(frames') = Len(frames)
                        /\ frames'[Len(frames)].pi = Top.pi + 1]_vars

\* what the entry k of the top frame's table_values renders to among the
\* resolved values as they are: a string with a delimiter is rendered,
\* anything else is as it is
RenderedAtEntry(k) ==
    LET v == Top.table_values[k]
    IN IF v.kind = "String" /\ HasDelimiter(v.s)
       THEN StrV(RenderPieces(TemplateTable[v.s].pieces, JinjaContext(values),
                              EnvironmentNew).text)
       ELSE v

\* C40: when Templating.process returns Ok, every entry of table_values is
\* what it renders to among resolver.values as they were when the plugin was
\* entered: a template that reads another entry of the same table gets that
\* entry as it was before the pass, whichever entry is rendered first.
C40_RenderedAgainstEntryValues ==
    [][(AtPlugin("templating") /\ Len(frames') = Len(frames))
        => \A k \in DOMAIN Top.table_values :
              frames'[Len(frames)].table_values[k] = RenderedAtEntry(k)]_vars

\* C40 witness: b = {k1 = 1, k2 = "{{ k1 }}", k3 = "{{ k2 }}"}: k2 has become
\* "1" and k3 the text that k2 was before the pass
C40_Witness ==
    /\ Doc = KeyRoot
    /\ Len(frames) = 1
    /\ Top.table_name = "b"
    /\ Top.pi > 1
    /\ plugins[Top.pi - 1] = "templating"
    /\ Top.table_values = [k \in {"k1", "k2", "k3"} |->
                              CASE k = "k1" -> IntV(1) [] k = "k2" -> StrV("1")
                                [] OTHER -> StrV("{{ k1 }}")]

====
